---- MODULE Spec2Model ----
(***************************************************************************)
(* Aadhaar verification pipeline: checksum validator, OCR extraction,      *)
(* field extraction from the OCR text, verification / fraud scoring, the   *)
(* duplicate-identifier registry, and the fraud-detection step of the      *)
(* backend's document analysis.                                            *)
(*                                                                         *)
(* Conventions                                                             *)
(*   - an identifier is a sequence of digits 0..9; the empty sequence      *)
(*     stands for Python's None (both are falsy in `if uid_number:`);      *)
(*   - in a string handed to a validator a digit is its value 0..9 and     *)
(*     any other character is its code point (32 space, 45 hyphen, ...);   *)
(*   - an absent text field is the empty string "" (falsy as None is);     *)
(*   - confidences are percentages (engine confidence 0.9 is 90);          *)
(*   - scores are kept in TENTHS of a point, so that the penalty           *)
(*     (50 - c) * 0.2 stays an integer: 40 points are 400, the cap of      *)
(*     100.0 is 1000, the thresholds 50 and 30 are 500 and 300;            *)
(*   - detection risk scores are kept in thousandths (0.7 is 700);         *)
(*   - the 'timestamp' and 'azure_openai_verification' entries of a        *)
(*     verification record are not kept: no decision reads them.           *)
(***************************************************************************)
EXTENDS Integers, Sequences, FiniteSets, TLC

VARIABLES
    ocr_extractor,    \* pipeline.ocr_extractor: which extractor class is plugged in
    azure_di,         \* pipeline.azure_di is configured (TRUE) or None (FALSE)
    processed_uids,   \* pipeline.processed_uids: the duplicate registry
    fraud_alerts,     \* pipeline.fraud_alerts
    results,          \* the records returned so far, in call order (the caller's list)
    batch_start,      \* history: Len(results) at the last reset() (0 at construction)
    log,              \* history: per call, the registry before and after it
    t_pc,             \* concurrent callers: position inside verify_document
    t_rec,            \* concurrent callers: the local verification_result
    t_seen,           \* concurrent callers: outcome of `uid_number in processed_uids`
    sc_flags,         \* scoring harness: fraud_flags handed to _calculate_fraud_score
    sc_conf,          \* scoring harness: ocr_result['confidence']
    sc_score,         \* scoring harness: the returned score (tenths)
    sc_done,          \* scoring harness: the function has returned
    bv_count,         \* history: the number of batch_verify calls so far
    bv_call,          \* history: the last batch_verify call, its directory, the
                      \* state it started from and the list it returned
    report,           \* the report last written by generate_report
    vh_input,         \* validator harness: the argument handed to the validators,
                      \* or the digits generate_uid_without_checksum drew
    vh_pipeline,      \* validator harness: what validate_aadhaar_uid returned
    vh_backend,       \* validator harness: what the backend validate did
    vh_generated,     \* validator harness: the identifier a generator returned
    oc_scan,          \* extraction harness: what the engines yield on the image
    oc_result,        \* extraction harness: the dictionary extract_data_from_image returned
    oc_done,          \* extraction harness: the call has returned
    tx_call,          \* field harness: the extractor class and the OCR text
    tx_out,           \* field harness: the fields the extractor found in the text
    tx_done,          \* field harness: the fields have been extracted
    dt_in,            \* detection harness: metadata.is_authentic before the step
                      \* and what the detector finds on the image
    dt_out,           \* detection harness: metadata after the step
    dt_done           \* detection harness: the step has run

vars == <<ocr_extractor, azure_di, processed_uids, fraud_alerts, results,
          batch_start, log, t_pc, t_rec, t_seen,
          sc_flags, sc_conf, sc_score, sc_done,
          bv_count, bv_call, report,
          vh_input, vh_pipeline, vh_backend, vh_generated,
          oc_scan, oc_result, oc_done,
          tx_call, tx_out, tx_done, dt_in, dt_out, dt_done>>

pipeline_vars == <<ocr_extractor, azure_di, processed_uids, fraud_alerts,
                   results, batch_start, log>>
thread_vars == <<t_pc, t_rec, t_seen>>
score_vars == <<sc_flags, sc_conf, sc_score, sc_done>>
batch_vars == <<bv_count, bv_call, report>>
verhoeff_vars == <<vh_input, vh_pipeline, vh_backend, vh_generated>>
ocr_vars == <<oc_scan, oc_result, oc_done>>
text_vars == <<tx_call, tx_out, tx_done>>
detect_vars == <<dt_in, dt_out, dt_done>>
harness_vars == <<batch_vars, verhoeff_vars, ocr_vars, text_vars, detect_vars>>

(***************************************************************************)
(* Bounds                                                                  *)
(***************************************************************************)
MaxDocs == 2          \* verify_document calls in one behaviour
MaxBatches == 2       \* batch_verify calls in one behaviour
TailLen == 2          \* digits of a stem the validator harness varies

(***************************************************************************)
(* Checksum validator (src/src/verhoeff_validator.py)                      *)
(***************************************************************************)
inv == <<0, 4, 3, 2, 6, 5, 7, 8, 9, 1>>

perm == << <<0, 1, 2, 3, 4, 5, 6, 7, 8, 9>>,
           <<1, 2, 3, 4, 0, 6, 7, 8, 9, 5>>,
           <<2, 3, 4, 0, 1, 7, 8, 9, 5, 6>>,
           <<3, 4, 0, 1, 2, 8, 9, 5, 6, 7>>,
           <<4, 0, 1, 2, 3, 9, 5, 6, 7, 8>>,
           <<5, 9, 8, 7, 6, 0, 4, 3, 2, 1>>,
           <<6, 5, 9, 8, 7, 1, 0, 4, 3, 2>>,
           <<7, 6, 5, 9, 8, 2, 1, 0, 4, 3>>,
           <<8, 7, 6, 5, 9, 3, 2, 1, 0, 4>>,
           <<9, 8, 7, 6, 5, 4, 3, 2, 1, 0>> >>

diag == << <<0, 1, 2, 3, 4, 5, 6, 7, 8, 9>>,
           <<1, 2, 3, 4, 0, 6, 7, 8, 9, 5>>,
           <<2, 3, 4, 0, 1, 7, 8, 9, 5, 6>>,
           <<3, 4, 0, 1, 2, 8, 9, 5, 6, 7>>,
           <<4, 0, 1, 2, 3, 9, 5, 6, 7, 8>>,
           <<5, 9, 8, 7, 6, 0, 4, 3, 2, 1>>,
           <<6, 5, 9, 8, 7, 1, 0, 4, 3, 2>>,
           <<7, 6, 5, 9, 8, 2, 1, 0, 4, 3>>,
           <<8, 7, 6, 5, 9, 3, 2, 1, 0, 4>>,
           <<9, 8, 7, 6, 5, 4, 3, 2, 1, 0>> >>

\* str.strip(): the whitespace at both ends is dropped (space and newline
\* are the whitespace characters of the model)
Whitespace == {32, 10}
strip(s) ==
    LET kept == {i \in DOMAIN s : s[i] \notin Whitespace}
    IN  IF kept = {} THEN <<>>
        ELSE SubSeq(s, CHOOSE i \in kept : \A j \in kept : i <= j,
                       CHOOSE i \in kept : \A j \in kept : j <= i)

\* re.match(r'^\d+$', s): s is a non-empty run of digits
IsDigits(s) == Len(s) > 0 /\ \A i \in DOMAIN s : s[i] \in 0..9

\* the loop of calculate_checksum: i counts from 0 over reversed(number_str)
RECURSIVE checksum_loop(_, _, _)
checksum_loop(number_str, i, c) ==
    IF i = Len(number_str) THEN c
    ELSE checksum_loop(number_str, i + 1,
             diag[c + 1][perm[(i % 8) + 1][number_str[Len(number_str) - i] + 1] + 1])

\* calculate_checksum is only reached with digit strings (validate_checksum
\* tests the pattern first, the generators hand in digits), so its
\* ValueError branch is never taken here
calculate_checksum(number_str) == inv[checksum_loop(strip(number_str), 0, 0) + 1]

\* mutation: the whole string, check digit included, is run through the
\* loop and the outcome tested against 0
validate_checksum_WholeString(number_with_checksum) ==
    IF ~IsDigits(strip(number_with_checksum)) THEN FALSE
    ELSE IF Len(strip(number_with_checksum)) < 2 THEN FALSE
    ELSE checksum_loop(strip(number_with_checksum), 0, 0) = 0

validate_checksum(number_with_checksum) ==
    LET stripped == strip(number_with_checksum)
    IN  IF ~IsDigits(stripped) THEN FALSE
        ELSE IF Len(stripped) < 2 THEN FALSE
        ELSE calculate_checksum(SubSeq(stripped, 1, Len(stripped) - 1))
                 = stripped[Len(stripped)]

\* validate_aadhaar_uid(uid_number), uid_number already turned into the
\* characters of str(uid_number)
validate_aadhaar_uid(uid_number) ==
    LET uid_str == strip(uid_number)
    IN  IF ~(IsDigits(uid_str) /\ Len(uid_str) = 12)
        THEN [ran |-> TRUE, is_valid |-> FALSE,
              error |-> "Aadhaar UID must be exactly 12 digits", uid |-> uid_str]
        ELSE LET is_valid == validate_checksum(uid_str)
             IN  [ran |-> TRUE, is_valid |-> is_valid,
                  error |-> IF is_valid THEN "None"
                            ELSE "Verhoeff checksum validation failed",
                  uid |-> uid_str]

\* verification_result['uid_validation'] = None
NoValidation == [ran |-> FALSE, is_valid |-> FALSE, error |-> "None", uid |-> <<>>]

(***************************************************************************)
(* The validator of the web backend (src/backend/documents/verhoeff.py).   *)
(* validate answers "True" or "False", or "ValueError" when int(item)      *)
(* raises.                                                                 *)
(***************************************************************************)
d == << <<0, 1, 2, 3, 4, 5, 6, 7, 8, 9>>,
        <<1, 2, 3, 4, 0, 6, 7, 8, 9, 5>>,
        <<2, 3, 4, 0, 1, 7, 8, 9, 5, 6>>,
        <<3, 4, 0, 1, 2, 8, 9, 5, 6, 7>>,
        <<4, 0, 1, 2, 3, 9, 5, 6, 7, 8>>,
        <<5, 9, 8, 7, 6, 0, 4, 3, 2, 1>>,
        <<6, 5, 9, 8, 7, 1, 0, 4, 3, 2>>,
        <<7, 6, 5, 9, 8, 2, 1, 0, 4, 3>>,
        <<8, 7, 6, 5, 9, 3, 2, 1, 0, 4>>,
        <<9, 8, 7, 6, 5, 4, 3, 2, 1, 0>> >>

p == << <<0, 1, 2, 3, 4, 5, 6, 7, 8, 9>>,
        <<1, 5, 7, 6, 2, 8, 3, 0, 9, 4>>,
        <<5, 8, 0, 3, 7, 9, 6, 1, 4, 2>>,
        <<8, 9, 1, 6, 0, 4, 3, 5, 2, 7>>,
        <<9, 4, 5, 3, 1, 2, 6, 8, 7, 0>>,
        <<4, 2, 8, 6, 5, 7, 3, 9, 0, 1>>,
        <<2, 7, 9, 3, 8, 0, 6, 4, 1, 5>>,
        <<7, 0, 4, 6, 9, 1, 3, 2, 5, 8>> >>

\* number.replace(" ", "").replace("-", "")
clean_number(number) == SelectSeq(number, LAMBDA ch : ch \notin {32, 45})

\* str.isdigit(): true of a non-empty string of digit characters; the
\* superscript two (code point 178) is one of them, although int() rejects it
isdigit(s) == Len(s) > 0 /\ \A i \in DOMAIN s : s[i] \in (0..9) \cup {178}

\* the loop of validate over reversed(clean_number)
RECURSIVE validate_loop(_, _, _)
validate_loop(reversed_number, i, c) ==
    IF i = Len(reversed_number) THEN c
    ELSE validate_loop(reversed_number, i + 1,
             d[c + 1][p[(i % 8) + 1][reversed_number[Len(reversed_number) - i] + 1] + 1])

\* VerhoeffValidator.validate(number); number.none is `number is None`,
\* number.s the characters of a str argument
validate(number) ==
    IF number.none \/ number.s = <<>> THEN "False"
    ELSE IF ~isdigit(clean_number(number.s)) THEN "False"
    ELSE IF Len(clean_number(number.s)) # 12 THEN "False"
    ELSE IF \E i \in DOMAIN clean_number(number.s) :
                clean_number(number.s)[i] \notin 0..9 THEN "ValueError"
    ELSE IF validate_loop(clean_number(number.s), 0, 0) = 0 THEN "True" ELSE "False"

\* str(uid_number): None prints as the four letters of "None"
str(uid_number) == IF uid_number.none THEN <<78, 111, 110, 101>> ELSE uid_number.s

\* no generator of synthetic identifiers has run
NotGenerated == [kind |-> "none", uid |-> <<>>]

(***************************************************************************)
(* OCR extraction (src/src/ocr_extractor.py, src/src/multi_ocr_extractor.py)*)
(*                                                                         *)
(* A raw text is kept as its length together with what the field           *)
(* extractors find in it; an engine call yields a text and a confidence.   *)
(***************************************************************************)
EmptyText == [len |-> 0, name |-> "", dob |-> "", gender |-> "",
              uid_number |-> <<>>, father_name |-> ""]

\* an engine that returned nothing, or threw inside its own try/except:
\* `return "", 0.0`
NoText == [text |-> EmptyText, conf |-> 0]

Engines == <<"Tesseract", "EasyOCR", "PaddleOCR">>

\* key=lambda x: (x[2], len(x[1])) compared as Python compares tuples
KeyLeq(a, b) == a.conf < b.conf \/ (a.conf = b.conf /\ a.text.len <= b.text.len)

\* MultiOcrExtractor.extract_text_multi_ocr on one preprocessed image:
\* outs[i] is what engine i returns, enabled[i] the use_* switch
extract_text_multi_ocr(outs, enabled) ==
    LET cand == {i \in DOMAIN outs : enabled[i] /\ outs[i].text.len > 0}
    IN  IF cand = {} THEN [text |-> EmptyText, conf |-> 0, engine |-> "None"]
        ELSE LET tops == {i \in cand : \A j \in cand : KeyLeq(outs[j], outs[i])}
                 best == CHOOSE i \in tops : \A j \in tops : i <= j
             IN  [text |-> outs[best].text, conf |-> outs[best].conf,
                  engine |-> Engines[best]]

\* mutation: a longer text replaces the best one whatever its confidence
MultiStrategyStep_LongerWins(best, run, enabled) ==
    IF run.throws THEN best
    ELSE LET r == extract_text_multi_ocr(run.engines, enabled)
         IN  IF r.text.len > best.text.len \/ r.conf > best.conf
             THEN r ELSE best

\* mutation: a strategy that raises discards what was kept so far
MultiStrategyStep_ThrowAborts(best, run, enabled) ==
    IF run.throws THEN [text |-> EmptyText, conf |-> 0, engine |-> "None"]
    ELSE LET r == extract_text_multi_ocr(run.engines, enabled)
         IN  IF r.conf > best.conf
                \/ (r.conf = best.conf /\ r.text.len > best.text.len)
             THEN r ELSE best

\* one turn of the strategy loop of MultiOcrExtractor.extract_data_from_image
MultiStrategyStep(best, run, enabled) ==
    IF run.throws THEN best
    ELSE LET r == extract_text_multi_ocr(run.engines, enabled)
         IN  IF r.conf > best.conf
                \/ (r.conf = best.conf /\ r.text.len > best.text.len)
             THEN r ELSE best

\* one turn of the strategy loop of OcrExtractor.extract_data_from_image
\* (extract_text is the Tesseract call)
OcrStrategyStep(best, run) ==
    IF run.throws THEN best
    ELSE LET r == run.engines[1]
         IN  IF r.text.len > best.text.len \/ r.conf > best.conf
             THEN [text |-> r.text, conf |-> r.conf, engine |-> "None"]
             ELSE best

RECURSIVE strategy_loop(_, _, _, _, _)
strategy_loop(extractor, runs, enabled, idx, best) ==
    IF idx > Len(runs) THEN best
    ELSE strategy_loop(extractor, runs, enabled, idx + 1,
             IF extractor = "MultiOcrExtractor"
             THEN MultiStrategyStep(best, runs[idx], enabled)
             ELSE OcrStrategyStep(best, runs[idx]))

\* data = {...}: the fields found in best_text
FieldsOf(text) ==
    [raw_text |-> text.len, name |-> text.name, dob |-> text.dob,
     gender |-> text.gender, uid_number |-> text.uid_number,
     father_name |-> text.father_name]

\* 'extracted_data': None
NoData == [raw_text |-> 0, name |-> "", dob |-> "", gender |-> "",
           uid_number |-> <<>>, father_name |-> ""]

\* filled = sum(1 for f in self.required_fields if data.get(f))
Filled(data) ==
    (IF data.name # "" THEN 1 ELSE 0) + (IF data.dob # "" THEN 1 ELSE 0)
    + (IF data.gender # "" THEN 1 ELSE 0) + (IF data.uid_number # <<>> THEN 1 ELSE 0)
    + (IF data.father_name # "" THEN 1 ELSE 0)

\* mutation: an empty best text is reported as a failed extraction
extract_data_from_image_EmptyFails(extractor, scan, enabled) ==
    LET best == strategy_loop(extractor, scan.runs, enabled, 1,
                    [text |-> EmptyText, conf |-> 0, engine |-> "None"])
        data == FieldsOf(best.text)
    IN  IF ~scan.loads \/ best.text.len = 0
        THEN [success |-> FALSE, error |-> "Failed to load image",
              extracted_data |-> NoData, confidence |-> 0,
              ocr_confidence |-> 0, ocr_engine |-> "None"]
        ELSE [success |-> TRUE, error |-> "None", extracted_data |-> data,
              confidence |-> (Filled(data) * 100) \div 5,
              ocr_confidence |-> best.conf, ocr_engine |-> best.engine]

\* extract_data_from_image of the plugged-in extractor; scan.loads is whether
\* cv2.imread gave an image, scan.runs what each strategy / engine yields on it
extract_data_from_image(extractor, scan, enabled) ==
    IF ~scan.loads
    THEN [success |-> FALSE, error |-> "Failed to load image",
          extracted_data |-> NoData, confidence |-> 0,
          ocr_confidence |-> 0, ocr_engine |-> "None"]
    ELSE LET best == strategy_loop(extractor, scan.runs, enabled, 1,
                         [text |-> EmptyText, conf |-> 0, engine |-> "None"])
             data == FieldsOf(best.text)
         IN  [success |-> TRUE, error |-> "None", extracted_data |-> data,
              confidence |-> (Filled(data) * 100) \div 5,
              ocr_confidence |-> best.conf, ocr_engine |-> best.engine]

(***************************************************************************)
(* The documents of the model: each image file with what loading it and    *)
(* running the engines on its three preprocessed versions gives.  V1      *)
(* passes validate_aadhaar_uid, X1 does not.                               *)
(***************************************************************************)
V1 == <<9, 9, 9, 9, 9, 9, 9, 9, 9, 9, 9, 0>>
X1 == <<9, 9, 9, 9, 9, 9, 9, 9, 9, 9, 9, 8>>

T_full    == [len |-> 80, name |-> "Ram Kumar", dob |-> "01/01/1990", gender |-> "M",
              uid_number |-> V1, father_name |-> "Shyam Kumar"]
T_uidonly == [len |-> 50, name |-> "", dob |-> "", gender |-> "",
              uid_number |-> V1, father_name |-> ""]
T_forged  == [len |-> 60, name |-> "Ram Kumar", dob |-> "1990", gender |-> "",
              uid_number |-> X1, father_name |-> ""]
T_nouid   == [len |-> 30, name |-> "Ram Kumar", dob |-> "", gender |-> "",
              uid_number |-> <<>>, father_name |-> ""]
T_noise   == [len |-> 90, name |-> "", dob |-> "", gender |-> "",
              uid_number |-> <<>>, father_name |-> ""]

Out(text, conf) == [text |-> text, conf |-> conf]
Run(tesseract, easyocr, paddleocr) ==
    [throws |-> FALSE, engines |-> <<tesseract, easyocr, paddleocr>>]
\* the strategy (or the call under it) raises: `except` skips it
Thrown == [throws |-> TRUE, engines |-> <<NoText, NoText, NoText>>]

Images == {"unreadable.jpg", "blank.jpg", "genuine.jpg", "reupload.jpg",
           "forged.jpg", "nouid.jpg", "sparse.jpg", "noisy.jpg"}

Scan(image_path) ==
    CASE image_path = "unreadable.jpg" ->
           [loads |-> FALSE, runs |-> <<Thrown, Thrown, Thrown>>]
      [] image_path = "blank.jpg" ->
           [loads |-> TRUE,
            runs |-> <<Run(NoText, NoText, NoText), Thrown, Run(NoText, NoText, NoText)>>]
      [] image_path = "genuine.jpg" ->
           [loads |-> TRUE,
            runs |-> <<Run(Out(T_full, 90), Out(T_uidonly, 90), NoText), Thrown,
                       Run(Out(T_uidonly, 40), NoText, Out(T_full, 90))>>]
      [] image_path = "reupload.jpg" ->
           [loads |-> TRUE,
            runs |-> <<Run(Out(T_uidonly, 40), NoText, NoText),
                       Run(NoText, Out(T_uidonly, 40), NoText), Thrown>>]
      [] image_path = "forged.jpg" ->
           [loads |-> TRUE,
            runs |-> <<Run(Out(T_forged, 90), Out(T_forged, 80), Out(T_forged, 90)),
                       Run(Out(T_forged, 90), NoText, NoText), Thrown>>]
      [] image_path = "nouid.jpg" ->
           [loads |-> TRUE,
            runs |-> <<Run(Out(T_nouid, 40), NoText, NoText), Thrown,
                       Run(NoText, NoText, Out(T_nouid, 40))>>]
      [] image_path = "sparse.jpg" ->   \* read well, but only the identifier is found
           [loads |-> TRUE,
            runs |-> <<Run(Out(T_uidonly, 90), NoText, NoText), Thrown, Thrown>>]
      [] OTHER ->   \* noisy.jpg: a long low-confidence text after a good one
           [loads |-> TRUE,
            runs |-> <<Run(Out(T_full, 90), NoText, NoText),
                       Run(Out(T_noise, 10), NoText, NoText), Thrown>>]

\* use_tesseract, use_easyocr, use_paddleocr as run_multi_ocr_pipeline.py sets them
AllEnabled == <<TRUE, TRUE, TRUE>>

(***************************************************************************)
(* Verification and fraud scoring (src/src/verification_pipeline.py)       *)
(***************************************************************************)
Has(flags, f) == \E i \in DOMAIN flags : flags[i] = f

\* verification_result = {...}
NewRecord(image_path) ==
    [image_path |-> image_path,
     ocr_extraction |-> [success |-> FALSE, error |-> "None", extracted_data |-> NoData,
                         confidence |-> 0, ocr_confidence |-> 0, ocr_engine |-> "None"],
     uid_validation |-> NoValidation,
     azure_di_validation |-> "None",
     is_fraudulent |-> FALSE,
     fraud_flags |-> <<>>,
     overall_score |-> 0,
     recommendation |-> "ACCEPT"]

\* mutation: the flag is appended but the recommendation is left as it was
FailedRecord_NoReject(rec) ==
    [rec EXCEPT !.fraud_flags = Append(@, "OCR_EXTRACTION_FAILED")]

\* if not ocr_result['success']: ... return verification_result
FailedRecord(rec) ==
    [rec EXCEPT !.recommendation = "REJECT",
                !.fraud_flags = Append(@, "OCR_EXTRACTION_FAILED")]

\* uid_validation = self.validator.validate_aadhaar_uid(uid_number) ...
ChecksumStage(rec, uid_number) ==
    LET uid_validation == validate_aadhaar_uid(uid_number)
    IN  IF ~uid_validation.is_valid
        THEN [rec EXCEPT !.uid_validation = uid_validation,
                         !.is_fraudulent = TRUE,
                         !.fraud_flags = Append(@, "INVALID_CHECKSUM")]
        ELSE [rec EXCEPT !.uid_validation = uid_validation]

\* `uid_number in self.processed_uids`
RegistryLookup(uid_number, uids) == uid_number \in uids

\* the two branches that follow the lookup: flag, or self.processed_uids.add
RegistryFlag(rec, seen) ==
    IF seen THEN [rec EXCEPT !.is_fraudulent = TRUE,
                             !.fraud_flags = Append(@, "DUPLICATE_UID")]
    ELSE rec

\* mutation: the identifier is never added to the registry
RegistryAdd_Forgets(uid_number, seen, uids) == uids

RegistryAdd(uid_number, seen, uids) ==
    IF seen THEN uids ELSE uids \cup {uid_number}

\* mutation: the flag is appended without marking the record fraud-suspect
MissingUid_NotSuspect(rec) ==
    [rec EXCEPT !.fraud_flags = Append(@, "UID_NOT_FOUND")]

\* else: fraud_flags.append('UID_NOT_FOUND'); is_fraudulent = True
MissingUid(rec) ==
    [rec EXCEPT !.fraud_flags = Append(@, "UID_NOT_FOUND"),
                !.is_fraudulent = TRUE]

\* if use_azure and self.azure_di: ...   az is what the service answers:
\* "skipped" (branch not taken), "failed" (success false), "invalid"
\* (validate_extraction not valid) or "valid"
AzureStage(rec, az) ==
    CASE az = "failed"  -> [rec EXCEPT !.azure_di_validation = az,
                                       !.fraud_flags = Append(@, "AZURE_DI_FAILED")]
      [] az = "invalid" -> [rec EXCEPT !.azure_di_validation = az,
                                       !.fraud_flags = Append(@, "AZURE_DI_VALIDATION_FAILED"),
                                       !.is_fraudulent = TRUE]
      [] az = "valid"   -> [rec EXCEPT !.azure_di_validation = az]
      [] OTHER          -> rec

Min(a, b) == IF a <= b THEN a ELSE b

\* mutation: the sum is returned without the cap of 100
calculate_fraud_score_Uncapped(fraud_flags, ocr_confidence) ==
    (IF Has(fraud_flags, "INVALID_CHECKSUM") THEN 400 ELSE 0)
    + (IF Has(fraud_flags, "DUPLICATE_UID") THEN 300 ELSE 0)
    + (IF Has(fraud_flags, "UID_NOT_FOUND") THEN 250 ELSE 0)
    + (IF Has(fraud_flags, "AZURE_DI_VALIDATION_FAILED") THEN 200 ELSE 0)
    + (IF ocr_confidence < 50 THEN (50 - ocr_confidence) * 2 ELSE 0)

\* _calculate_fraud_score, in tenths of a point
calculate_fraud_score(fraud_flags, ocr_confidence) ==
    LET s1 == IF Has(fraud_flags, "INVALID_CHECKSUM") THEN 400 ELSE 0
        s2 == s1 + (IF Has(fraud_flags, "DUPLICATE_UID") THEN 300 ELSE 0)
        s3 == s2 + (IF Has(fraud_flags, "UID_NOT_FOUND") THEN 250 ELSE 0)
        s4 == s3 + (IF Has(fraud_flags, "AZURE_DI_VALIDATION_FAILED") THEN 200 ELSE 0)
        s5 == s4 + (IF ocr_confidence < 50 THEN (50 - ocr_confidence) * 2 ELSE 0)
    IN  Min(s5, 1000)

\* mutation: the fraud-suspect mark is ignored, only the score decides
Recommendation_ScoreOnly(is_fraudulent, overall_score) ==
    IF overall_score > 500 THEN "REJECT"
    ELSE IF overall_score > 300 THEN "REVIEW"
    ELSE "ACCEPT"

\* the if / elif / else that sets verification_result['recommendation']
Recommendation(is_fraudulent, overall_score) ==
    IF is_fraudulent \/ overall_score > 500 THEN "REJECT"
    ELSE IF overall_score > 300 THEN "REVIEW"
    ELSE "ACCEPT"

\* mutation: an alert is raised on the score only
AlertStage_ScoreOnly(rec, uid_number, alerts) ==
    IF rec.overall_score > 500
    THEN Append(alerts, [image |-> rec.image_path, uid |-> uid_number,
                         flags |-> rec.fraud_flags, score |-> rec.overall_score])
    ELSE alerts

\* self.fraud_alerts.append({...}) under its condition
AlertStage(rec, uid_number, alerts) ==
    IF rec.is_fraudulent \/ rec.overall_score > 500
    THEN Append(alerts, [image |-> rec.image_path, uid |-> uid_number,
                         flags |-> rec.fraud_flags, score |-> rec.overall_score])
    ELSE alerts

\* from the Azure block to the recommendation
ScoreStage(rec, az) ==
    LET r1 == AzureStage(rec, az)
        r2 == [r1 EXCEPT !.overall_score =
                   calculate_fraud_score(r1.fraud_flags, r1.ocr_extraction.confidence)]
    IN  [r2 EXCEPT !.recommendation = Recommendation(r2.is_fraudulent, r2.overall_score)]

\* what the Azure Document Intelligence call can answer on this call
AzureAnswers(use_azure) ==
    IF use_azure /\ azure_di THEN {"failed", "invalid", "valid"} ELSE {"skipped"}

(***************************************************************************)
(* Field extraction from the OCR text (extract_uid, extract_gender and    *)
(* the father-name loop of the three extractors).  A text is the sequence  *)
(* of its characters: a digit is its value 0..9, any other character its   *)
(* code point.                                                             *)
(***************************************************************************)
\* the character classes of `re` on the characters of the model
IsDigit(c) == c \in 0..9
IsSpace(c) == c \in Whitespace
IsUpper(c) == c \in 65..90
IsLower(c) == c \in 97..122
IsLetter(c) == IsUpper(c) \/ IsLower(c)
IsWord(c) == IsDigit(c) \/ IsLetter(c) \/ c = 95

\* str.lower() on one character
lower(c) == IF IsUpper(c) THEN c + 32 ELSE c

\* str.upper() on a string
upper(s) == [k \in DOMAIN s |-> IF IsLower(s[k]) THEN s[k] - 32 ELSE s[k]]

\* \b before position i: exactly one of text[i-1], text[i] is a word character
WordAt(text, i) == i \in 1..Len(text) /\ IsWord(text[i])
Boundary(text, i) == WordAt(text, i - 1) # WordAt(text, i)

\* corrections.get(char, char)
corrections(c) ==
    CASE c \in {79, 111, 68} -> 0
      [] c \in {73, 108, 124} -> 1
      [] c \in {83, 115} -> 5
      [] c \in {90, 122} -> 2
      [] c = 66 -> 8
      [] c = 71 -> 6
      [] OTHER -> c

\* mutation: the patterns also take the look-alike letters for digits
DigitsAt_Lookalike(text, i, n) ==
    i + n - 1 <= Len(text)
    /\ \A k \in i..(i + n - 1) : IsDigit(text[k]) \/ corrections(text[k]) # text[k]

\* \d{n} at position i
DigitsAt(text, i, n) ==
    i + n - 1 <= Len(text) /\ \A k \in i..(i + n - 1) : IsDigit(text[k])

\* \s* from position i: the position of the first character that is no space
RECURSIVE SkipSpace(_, _)
SkipSpace(text, i) ==
    IF i <= Len(text) /\ IsSpace(text[i]) THEN SkipSpace(text, i + 1) ELSE i

\* uid_spaced_pattern = r'\b(\d{4})\s+(\d{4})\s+(\d{4})\b' tried at position
\* i: the position after the match, 0 when it does not match there
SpacedThird(text, k) ==
    IF DigitsAt(text, k, 4) /\ Boundary(text, k + 4) THEN k + 4 ELSE 0
SpacedSecond(text, j) ==
    IF DigitsAt(text, j, 4) /\ SkipSpace(text, j + 4) > j + 4
    THEN SpacedThird(text, SkipSpace(text, j + 4)) ELSE 0
SpacedEnd(text, i) ==
    IF Boundary(text, i) /\ DigitsAt(text, i, 4) /\ SkipSpace(text, i + 4) > i + 4
    THEN SpacedSecond(text, SkipSpace(text, i + 4)) ELSE 0

\* ''.join(groups) of the match of uid_spaced_pattern at i that ends before e
SpacedJoin(text, i, e) ==
    SubSeq(text, i, i + 3)
    \o SubSeq(text, SkipSpace(text, i + 4), SkipSpace(text, i + 4) + 3)
    \o SubSeq(text, e - 4, e - 1)

\* re.findall(self.uid_spaced_pattern, text), each match joined
RECURSIVE findall_spaced(_, _)
findall_spaced(text, i) ==
    IF i > Len(text) THEN <<>>
    ELSE IF SpacedEnd(text, i) > 0
         THEN <<SpacedJoin(text, i, SpacedEnd(text, i))>>
              \o findall_spaced(text, SpacedEnd(text, i))
         ELSE findall_spaced(text, i + 1)

\* re.findall(self.uid_pattern, text) with uid_pattern = r'\d{12}'
RECURSIVE findall_uid(_, _)
findall_uid(text, i) ==
    IF i > Len(text) THEN <<>>
    ELSE IF DigitsAt(text, i, 12)
         THEN <<SubSeq(text, i, i + 11)>> \o findall_uid(text, i + 12)
         ELSE findall_uid(text, i + 1)

\* str.isdigit on one character
IsDigitChar(c) == c \in (0..9) \cup {178}

\* correct_uid_ocr_errors of MultiOcrExtractor and FastOcrExtractor
correct_uid_ocr_errors(uid_str) ==
    SelectSeq([k \in DOMAIN uid_str |-> corrections(uid_str[k])], IsDigitChar)

\* what extract_uid makes of one match: the identifier it returns, or <<>>
\* when it goes on.  OcrExtractor has no correction and no length test.
AcceptedUid(extractor, match) ==
    IF extractor = "OcrExtractor"
    THEN IF match[1] \notin {0, 1} THEN match ELSE <<>>
    ELSE IF /\ Len(correct_uid_ocr_errors(match)) = 12
            /\ correct_uid_ocr_errors(match)[1] \notin {0, 1}
         THEN correct_uid_ocr_errors(match) ELSE <<>>

\* for match in matches: ... return
RECURSIVE FirstAccepted(_, _, _)
FirstAccepted(extractor, matches, k) ==
    IF k > Len(matches) THEN <<>>
    ELSE IF AcceptedUid(extractor, matches[k]) # <<>>
         THEN AcceptedUid(extractor, matches[k])
         ELSE FirstAccepted(extractor, matches, k + 1)

\* extract_uid after the two findall calls
ExtractFrom(extractor, spaced_matches, matches) ==
    IF spaced_matches # <<>> /\ AcceptedUid(extractor, spaced_matches[1]) # <<>>
    THEN AcceptedUid(extractor, spaced_matches[1])
    ELSE FirstAccepted(extractor, matches, 1)

\* extract_uid(text); <<>> is None
extract_uid(extractor, text) ==
    ExtractFrom(extractor, findall_spaced(text, 1), findall_uid(text, 1))

\* the matches up to the first one extract_uid returns on
RECURSIVE TriedMatches(_, _, _)
TriedMatches(extractor, matches, k) ==
    IF k > Len(matches) THEN <<>>
    ELSE IF AcceptedUid(extractor, matches[k]) # <<>> THEN <<matches[k]>>
         ELSE <<matches[k]>> \o TriedMatches(extractor, matches, k + 1)

\* the strings extract_uid hands to correct_uid_ocr_errors, in call order
CorrectionCallsOf(extractor, spaced_matches, matches) ==
    IF extractor = "OcrExtractor" THEN <<>>
    ELSE IF spaced_matches = <<>> THEN TriedMatches(extractor, matches, 1)
    ELSE IF AcceptedUid(extractor, spaced_matches[1]) # <<>>
         THEN <<spaced_matches[1]>>
         ELSE <<spaced_matches[1]>> \o TriedMatches(extractor, matches, 1)
correction_calls(extractor, text) ==
    CorrectionCallsOf(extractor, findall_spaced(text, 1), findall_uid(text, 1))

\* the string lit stands at position i of text; with re.IGNORECASE (or on
\* line.lower()) the letter case is not looked at
LiteralAt(text, i, lit, ignorecase) ==
    /\ i + Len(lit) - 1 <= Len(text)
    /\ \A k \in 1..Len(lit) :
          IF ignorecase THEN lower(text[i + k - 1]) = lower(lit[k])
          ELSE text[i + k - 1] = lit[k]

\* the alternatives of gender_pattern = r'\b([MF]|Male|Female|MALE|FEMALE)\b'
\* in the order the pattern tries them
GenderTokens ==
    << <<77>>, <<70>>, <<77, 97, 108, 101>>, <<70, 101, 109, 97, 108, 101>>,
       <<77, 65, 76, 69>>, <<70, 69, 77, 65, 76, 69>> >>

\* the first alternative that matches at position i, 0 when none does
FirstOf(alts) == IF alts = {} THEN 0 ELSE CHOOSE a \in alts : \A b \in alts : a <= b
GenderAlternativeAt(text, i, ignorecase) ==
    IF ~Boundary(text, i) THEN 0
    ELSE FirstOf({a \in DOMAIN GenderTokens :
                     /\ LiteralAt(text, i, GenderTokens[a], ignorecase)
                     /\ Boundary(text, i + Len(GenderTokens[a]))})

\* matches[0] of re.findall(self.gender_pattern, text[, re.IGNORECASE]),
\* <<>> when there is no match
RECURSIVE first_gender_match(_, _, _)
first_gender_match(text, i, ignorecase) ==
    IF i > Len(text) THEN <<>>
    ELSE IF GenderAlternativeAt(text, i, ignorecase) > 0
         THEN SubSeq(text, i,
                  i + Len(GenderTokens[GenderAlternativeAt(text, i, ignorecase)]) - 1)
         ELSE first_gender_match(text, i + 1, ignorecase)

\* g = matches[0].upper(); 'M' if g in ['M', 'MALE'] else ('F' if ... else None)
GenderCode(g) ==
    IF g \in {<<77>>, <<77, 65, 76, 69>>} THEN "M"
    ELSE IF g \in {<<70>>, <<70, 69, 77, 65, 76, 69>>} THEN "F" ELSE ""

\* extract_gender(text); "" is None.  Only FastOcrExtractor passes
\* re.IGNORECASE.
extract_gender(extractor, text) ==
    GenderCode(upper(first_gender_match(text, 1, extractor = "FastOcrExtractor")))

\* best_text.split('\n')
RECURSIVE split(_, _, _)
split(text, i, line) ==
    IF i > Len(text) THEN <<line>>
    ELSE IF text[i] = 10 THEN <<line>> \o split(text, i + 1, <<>>)
         ELSE split(text, i + 1, Append(line, text[i]))

NonEmpty(s) == s # <<>>

\* lines = [l.strip() for l in best_text.split('\n') if l.strip()]
LinesOf(text) ==
    SelectSeq([k \in DOMAIN split(text, 1, <<>>) |-> strip(split(text, 1, <<>>)[k])],
              NonEmpty)

\* lit in line.lower(), lit in lower case
Contains(line, lit) == \E i \in 1..Len(line) : LiteralAt(line, i, lit, TRUE)

W_father == <<102, 97, 116, 104, 101, 114>>
W_s_o == <<115, 47, 111>>
W_d_o == <<100, 47, 111>>

\* the condition that selects a line for the father-name search
HasMarker(extractor, line) ==
    \/ Contains(line, W_father)
    \/ extractor = "FastOcrExtractor" /\ (Contains(line, W_s_o) \/ Contains(line, W_d_o))

\* [A-Za-z\s]
InNameClass(c) == IsLetter(c) \/ IsSpace(c)

\* [A-Za-z\s]* from position i: the position of the first character outside
RECURSIVE NameRunEnd(_, _)
NameRunEnd(line, i) ==
    IF i <= Len(line) /\ InNameClass(line[i]) THEN NameRunEnd(line, i + 1) ELSE i

\* [:\-]? at position i: the position after it
AfterSeparator(line, i) ==
    IF i <= Len(line) /\ line[i] \in {58, 45} THEN i + 1 ELSE i

\* r'[:\-]?\s*([A-Za-z\s]{3,50})' matches at position i
NameMatchAt(line, i) ==
    NameRunEnd(line, AfterSeparator(line, i)) - AfterSeparator(line, i) >= 3

\* group(1) of the match at i: s is the position after the separator and e
\* the end of the run of letters and spaces; \s* keeps the leading spaces
\* unless the group would then be shorter than three characters
NameGroup(line, s, e) ==
    IF e - SkipSpace(line, s) >= 3
    THEN SubSeq(line, SkipSpace(line, s), Min(e - 1, SkipSpace(line, s) + 49))
    ELSE SubSeq(line, e - 3, e - 1)

\* m = re.search(...); fn = m.group(1).strip(): <<>> when there is no match
FirstMatchPos(line) ==
    FirstOf({i \in 1..Len(line) : NameMatchAt(line, i)})
NameOfLine(line) ==
    IF FirstMatchPos(line) = 0 THEN <<>>
    ELSE strip(NameGroup(line, AfterSeparator(line, FirstMatchPos(line)),
                   NameRunEnd(line, AfterSeparator(line, FirstMatchPos(line)))))

\* if len(fn) > 2 and not any(c.isdigit() for c in fn)
NameAccepted(fn) == Len(fn) > 2 /\ \A k \in DOMAIN fn : ~IsDigitChar(fn[k])

\* the father-name loop over the lines from line k on; FastOcrExtractor
\* breaks at the first assignment, the other two keep the last one
RECURSIVE father_name_loop(_, _, _, _)
father_name_loop(extractor, lines, k, found) ==
    IF k > Len(lines) THEN found
    ELSE IF HasMarker(extractor, lines[k]) /\ NameAccepted(NameOfLine(lines[k]))
         THEN IF extractor = "FastOcrExtractor" THEN NameOfLine(lines[k])
              ELSE father_name_loop(extractor, lines, k + 1, NameOfLine(lines[k]))
         ELSE father_name_loop(extractor, lines, k + 1, found)

\* data['father_name'] after the loop; <<>> is None
father_name(extractor, text) == father_name_loop(extractor, LinesOf(text), 1, <<>>)

(***************************************************************************)
(* Fraud detection and its integration into the analysis verdict           *)
(* (src/backend/documents/fraud_detector.py, views.py).  Risk scores are   *)
(* kept in thousandths, detection confidences in percent; is_authentic is  *)
(* "True", "False" or "None".                                              *)
(***************************************************************************)
\* FRAUD_CLASS_NAMES, the classes of the model
FRAUD_CLASS_NAMES == {"tampered_photo", "altered_text"}

\* the indicator _run_yolo_detection appends for a detection of a fraud class
YoloIndicator(class_name) ==
    IF class_name = "tampered_photo" THEN "Photo appears to be tampered or overlaid"
    ELSE "Text appears to be digitally altered"

\* the indicator _run_cv_analysis appends for each of its five checks
CvChecks == {"compression", "copy_paste", "noise", "edge", "text"}
CvIndicator(check) ==
    CASE check = "compression" -> "Suspicious compression artifacts detected"
      [] check = "copy_paste" -> "Potential copy-paste manipulation detected"
      [] check = "noise" -> "Inconsistent noise patterns detected"
      [] check = "edge" -> "Suspicious edge patterns detected"
      [] OTHER -> "Text region anomalies detected"

\* any(kw in ind.lower() for kw in ['compression', 'noise', 'copy-paste', 'edge'])
HasCvKeyword(ind) ==
    ind \in {"Suspicious compression artifacts detected",
             "Potential copy-paste manipulation detected",
             "Inconsistent noise patterns detected",
             "Suspicious edge patterns detected"}

critical_indicators(indicators) == {ind \in indicators : ~HasCvKeyword(ind)}
cv_indicators(indicators) == {ind \in indicators : HasCvKeyword(ind)}

\* max(d['confidence'] for d in fraud_detections)
MaxConfidence(fraud_detections) ==
    CHOOSE c \in {x.confidence : x \in fraud_detections} :
        \A x \in fraud_detections : x.confidence <= c

\* FraudDetector._calculate_risk_score
DetectionPart(fraud_detections) ==
    IF fraud_detections = {} THEN 0 ELSE MaxConfidence(fraud_detections) * 4
IndicatorPart(n, weight, cap) == IF n = 0 THEN 0 ELSE Min(n * weight, cap)
calculate_risk_score(indicators, detections) ==
    Min(IndicatorPart(Cardinality(critical_indicators(indicators)), 200, 600)
        + IndicatorPart(Cardinality(cv_indicators(indicators)), 50, 150)
        + DetectionPart({x \in detections : x.class_name \in FRAUD_CLASS_NAMES}),
        1000)

\* the indicators FraudDetector.detect collects on an existing image
IndicatorsOf(detections, cv_findings) ==
    {YoloIndicator(x.class_name) :
        x \in {y \in detections : y.class_name \in FRAUD_CLASS_NAMES}}
    \cup {CvIndicator(check) : check \in cv_findings}

\* FraudDetector.detect (detect_fraud)
detect(image) ==
    IF ~image.exists
    THEN [fraud_indicators |-> {"Image file not found"}, risk_score |-> 1000]
    ELSE [fraud_indicators |-> IndicatorsOf(image.detections, image.cv_findings),
          risk_score |-> calculate_risk_score(
                             IndicatorsOf(image.detections, image.cv_findings),
                             image.detections)]

\* mutation: an authentic verdict is overridden from the threshold of the
\* unconfirmed ones on
UpdateAuthenticity_LowThreshold(is_authentic, fraud_risk_score, has_critical_fraud) ==
    IF fraud_risk_score > 500 /\ has_critical_fraud THEN "False"
    ELSE IF /\ fraud_risk_score <= 300 /\ ~has_critical_fraud
            /\ is_authentic = "None"
         THEN "True" ELSE is_authentic

\* _analyze_document: "Update authenticity based on fraud detection"
UpdateAuthenticity(is_authentic, fraud_risk_score, has_critical_fraud) ==
    IF is_authentic = "True"
    THEN IF fraud_risk_score > 700 /\ has_critical_fraud THEN "False" ELSE "True"
    ELSE IF fraud_risk_score > 500 /\ has_critical_fraud THEN "False"
         ELSE IF /\ fraud_risk_score <= 300 /\ ~has_critical_fraud
                 /\ is_authentic = "None"
              THEN "True" ELSE is_authentic

\* the indicator the step appends when it overrides the verdict
OverrideIndicator(is_authentic, fraud_risk_score, has_critical_fraud) ==
    IF is_authentic = "True"
    THEN IF fraud_risk_score > 700 /\ has_critical_fraud
         THEN {"High fraud risk detected by YOLO"} ELSE {}
    ELSE IF fraud_risk_score > 500 /\ has_critical_fraud
         THEN {"Suspicious document"} ELSE {}

\* the try block of the step on the result of detect_fraud
IntegrateResult(is_authentic, fraud_result) ==
    [is_authentic |->
         UpdateAuthenticity(is_authentic, fraud_result.risk_score,
             critical_indicators(fraud_result.fraud_indicators) # {}),
     fraud_indicators |->
         fraud_result.fraud_indicators
         \cup OverrideIndicator(is_authentic, fraud_result.risk_score,
                  critical_indicators(fraud_result.fraud_indicators) # {}),
     risk_score |-> fraud_result.risk_score]

\* the except branch: the verdict is left as it was
DetectionFailed(is_authentic) ==
    [is_authentic |-> is_authentic, fraud_indicators |-> {}, risk_score |-> 0]

(***************************************************************************)
(* The pipeline driven by one caller, as batch_verify and the run scripts  *)
(* drive it: verify_document runs from its first line to its return.       *)
(***************************************************************************)
\* the variables of a harness that is not running
NoReport == [written |-> FALSE,
             summary |-> [total_documents |-> 0, accepted |-> 0, rejected |-> 0,
                          review_required |-> 0, fraud_alerts |-> 0],
             detailed_results |-> <<>>,
             fraud_alerts |-> <<>>]
NoCall == [image_dir |-> [exists |-> FALSE, files |-> {}],
           uids_before |-> {}, alerts_before |-> <<>>, results |-> <<>>]
BatchIdle == bv_count = 0 /\ bv_call = NoCall /\ report = NoReport
VerhoeffIdle ==
    /\ vh_input = [none |-> TRUE, s |-> <<>>]
    /\ vh_pipeline = NoValidation
    /\ vh_backend = "pending"
    /\ vh_generated = NotGenerated
OcrIdle ==
    /\ oc_scan = [loads |-> FALSE, runs |-> <<Thrown, Thrown, Thrown>>,
                  enabled |-> AllEnabled]
    /\ oc_result = NewRecord("None").ocr_extraction
    /\ oc_done = FALSE

\* the fields of a text that has not been read
NoFields == [uid_number |-> <<>>, gender |-> "", father_name |-> <<>>, corrected |-> <<>>]
TextIdle ==
    /\ tx_call = [extractor |-> "OcrExtractor", text |-> <<>>]
    /\ tx_out = NoFields
    /\ tx_done = FALSE
NoDetectionInput ==
    [is_authentic |-> "None", exists |-> FALSE, detections |-> {},
     cv_findings |-> {}, raises |-> FALSE]
NoDetectionOutput == [is_authentic |-> "None", fraud_indicators |-> {}, risk_score |-> 0]
DetectIdle ==
    /\ dt_in = NoDetectionInput
    /\ dt_out = NoDetectionOutput
    /\ dt_done = FALSE

IdleThreads == [t \in {1, 2} |-> "idle"]
NoLocals == [t \in {1, 2} |-> NewRecord("None")]
NotSeen == [t \in {1, 2} |-> FALSE]

Init ==
    /\ ocr_extractor \in {"OcrExtractor", "MultiOcrExtractor"}
    /\ azure_di \in BOOLEAN
    /\ processed_uids = {}
    /\ fraud_alerts = <<>>
    /\ results = <<>>
    /\ batch_start = 0
    /\ log = <<>>
    /\ t_pc = IdleThreads /\ t_rec = NoLocals /\ t_seen = NotSeen
    /\ sc_flags = <<>> /\ sc_conf = 0 /\ sc_score = 0 /\ sc_done = FALSE
    /\ BatchIdle /\ VerhoeffIdle /\ OcrIdle /\ TextIdle /\ DetectIdle

\* verify_document(image_path, use_azure) up to its return on failed OCR
VerifyFailed(image_path) ==
    LET ocr_result == extract_data_from_image(ocr_extractor, Scan(image_path), AllEnabled)
        rec == [NewRecord(image_path) EXCEPT !.ocr_extraction = ocr_result]
    IN  /\ ~ocr_result.success
        /\ results' = Append(results, FailedRecord(rec))
        /\ log' = Append(log, [before |-> processed_uids, after |-> processed_uids])
        /\ UNCHANGED <<processed_uids, fraud_alerts>>

\* verify_document(image_path, use_azure) when OCR succeeded
VerifyScored(image_path, az) ==
    LET ocr_result == extract_data_from_image(ocr_extractor, Scan(image_path), AllEnabled)
        rec == [NewRecord(image_path) EXCEPT !.ocr_extraction = ocr_result]
        uid_number == ocr_result.extracted_data.uid_number
        seen == RegistryLookup(uid_number, processed_uids)
        checked == IF uid_number # <<>>
                   THEN RegistryFlag(ChecksumStage(rec, uid_number), seen)
                   ELSE MissingUid(rec)
        uids == IF uid_number # <<>>
                THEN RegistryAdd(uid_number, seen, processed_uids)
                ELSE processed_uids
        final == ScoreStage(checked, az)
    IN  /\ ocr_result.success
        /\ processed_uids' = uids
        /\ fraud_alerts' = AlertStage(final, uid_number, fraud_alerts)
        /\ results' = Append(results, final)
        /\ log' = Append(log, [before |-> processed_uids, after |-> uids])

verify_document ==
    /\ Len(results) < MaxDocs
    /\ \E image_path \in Images, use_azure \in BOOLEAN :
         \E az \in AzureAnswers(use_azure) :
            VerifyFailed(image_path) \/ VerifyScored(image_path, az)
    /\ UNCHANGED <<ocr_extractor, azure_di, batch_start, thread_vars, score_vars, harness_vars>>

\* reset(): both collections are cleared; the records already returned stay
\* with the caller
reset ==
    /\ processed_uids' = {}
    /\ fraud_alerts' = <<>>
    /\ batch_start' = Len(results)
    /\ UNCHANGED <<ocr_extractor, azure_di, results, log, thread_vars, score_vars, harness_vars>>

Next == verify_document \/ reset

Spec == Init /\ [][Next]_vars

(***************************************************************************)
(* Two callers inside verify_document on the same pipeline object.  The    *)
(* method takes no lock, so a caller can be preempted between any two of   *)
(* its statements; the steps below are cut where the shared registry and   *)
(* the shared alert list are read or written.                              *)
(***************************************************************************)
Threads == {1, 2}

LocalUid(t) == t_rec[t].ocr_extraction.extracted_data.uid_number

InitConc ==
    /\ ocr_extractor \in {"OcrExtractor", "MultiOcrExtractor"}
    /\ azure_di \in BOOLEAN
    /\ processed_uids = {}
    /\ fraud_alerts = <<>>
    /\ results = <<>>
    /\ batch_start = 0
    /\ log = <<>>
    /\ t_pc = IdleThreads /\ t_rec = NoLocals /\ t_seen = NotSeen
    /\ sc_flags = <<>> /\ sc_conf = 0 /\ sc_score = 0 /\ sc_done = FALSE
    /\ BatchIdle /\ VerhoeffIdle /\ OcrIdle /\ TextIdle /\ DetectIdle

\* from the first line to just before `if uid_number in self.processed_uids`
T_Begin(t) ==
    /\ t_pc[t] = "idle"
    /\ \E image_path \in Images :
         LET ocr_result == extract_data_from_image(ocr_extractor, Scan(image_path),
                                                   AllEnabled)
             rec == [NewRecord(image_path) EXCEPT !.ocr_extraction = ocr_result]
             uid_number == ocr_result.extracted_data.uid_number
         IN  IF ~ocr_result.success
             THEN /\ t_rec' = [t_rec EXCEPT ![t] = FailedRecord(rec)]
                  /\ results' = Append(results, FailedRecord(rec))
                  /\ t_pc' = [t_pc EXCEPT ![t] = "done"]
             ELSE IF uid_number # <<>>
             THEN /\ t_rec' = [t_rec EXCEPT ![t] = ChecksumStage(rec, uid_number)]
                  /\ t_pc' = [t_pc EXCEPT ![t] = "lookup"]
                  /\ UNCHANGED results
             ELSE /\ t_rec' = [t_rec EXCEPT ![t] = MissingUid(rec)]
                  /\ t_pc' = [t_pc EXCEPT ![t] = "score"]
                  /\ UNCHANGED results
    /\ UNCHANGED <<text_vars, detect_vars, ocr_extractor, azure_di, processed_uids, fraud_alerts,
                   batch_start, log, t_seen, score_vars, harness_vars>>

\* the test `uid_number in self.processed_uids`
T_Lookup(t) ==
    /\ t_pc[t] = "lookup"
    /\ t_seen' = [t_seen EXCEPT ![t] = RegistryLookup(LocalUid(t), processed_uids)]
    /\ t_pc' = [t_pc EXCEPT ![t] = "update"]
    /\ UNCHANGED <<pipeline_vars, t_rec, score_vars, harness_vars>>

\* the branch taken on that test: flag the record, or add to the registry
T_Update(t) ==
    /\ t_pc[t] = "update"
    /\ t_rec' = [t_rec EXCEPT ![t] = RegistryFlag(@, t_seen[t])]
    /\ processed_uids' = RegistryAdd(LocalUid(t), t_seen[t], processed_uids)
    /\ t_pc' = [t_pc EXCEPT ![t] = "score"]
    /\ UNCHANGED <<text_vars, detect_vars, ocr_extractor, azure_di, fraud_alerts, results, batch_start, log,
                   t_seen, score_vars, harness_vars>>

\* from the Azure block to the return
T_Finish(t) ==
    /\ t_pc[t] = "score"
    /\ \E use_azure \in BOOLEAN : \E az \in AzureAnswers(use_azure) :
         LET final == ScoreStage(t_rec[t], az)
         IN  /\ t_rec' = [t_rec EXCEPT ![t] = final]
             /\ fraud_alerts' = AlertStage(final, LocalUid(t), fraud_alerts)
             /\ results' = Append(results, final)
    /\ t_pc' = [t_pc EXCEPT ![t] = "done"]
    /\ UNCHANGED <<text_vars, detect_vars, ocr_extractor, azure_di, processed_uids, batch_start, log,
                   t_seen, score_vars, harness_vars>>

NextConc == \E t \in Threads : T_Begin(t) \/ T_Lookup(t) \/ T_Update(t) \/ T_Finish(t)

SpecConc == InitConc /\ [][NextConc]_vars

(***************************************************************************)
(* _calculate_fraud_score on its own: every list of flags the pipeline     *)
(* knows, every confidence 0..100.                                         *)
(***************************************************************************)
AllFlags == <<"OCR_EXTRACTION_FAILED", "INVALID_CHECKSUM", "DUPLICATE_UID",
              "UID_NOT_FOUND", "AZURE_DI_FAILED", "AZURE_DI_VALIDATION_FAILED">>
FlagNames == {AllFlags[i] : i \in DOMAIN AllFlags}
InSet(S, f) == f \in S
FlagList(S) == SelectSeq(AllFlags, LAMBDA f : InSet(S, f))

InitScore ==
    /\ ocr_extractor = "OcrExtractor"
    /\ azure_di = FALSE
    /\ processed_uids = {}
    /\ fraud_alerts = <<>>
    /\ results = <<>>
    /\ batch_start = 0
    /\ log = <<>>
    /\ t_pc = IdleThreads /\ t_rec = NoLocals /\ t_seen = NotSeen
    /\ sc_flags \in {FlagList(S) : S \in SUBSET FlagNames}
    /\ sc_conf \in 0..100
    /\ sc_score = 0
    /\ sc_done = FALSE
    /\ BatchIdle /\ VerhoeffIdle /\ OcrIdle /\ TextIdle /\ DetectIdle

ScoreCall ==
    /\ ~sc_done
    /\ sc_score' = calculate_fraud_score(sc_flags, sc_conf)
    /\ sc_done' = TRUE
    /\ UNCHANGED <<pipeline_vars, thread_vars, sc_flags, sc_conf, harness_vars>>

NextScore == ScoreCall

SpecScore == InitScore /\ [][NextScore]_vars

(***************************************************************************)
(* batch_verify and generate_report, as run_pipeline.py calls them on one  *)
(* pipeline object; reset() is the caller's to call between two batches.   *)
(***************************************************************************)
\* what a directory handed to batch_verify can hold
DirFiles == {"genuine.jpg", "unreadable.jpg", "notes.txt"}

\* image_file.suffix.lower()
suffix_lower(image_file) == IF image_file = "notes.txt" THEN ".txt" ELSE ".jpg"

image_extensions == {".jpg", ".jpeg", ".png", ".bmp", ".tiff"}

\* Path(image_directory): it exists or not, and the entries it holds
Directories ==
    {[exists |-> FALSE, files |-> {}]}
    \cup {[exists |-> TRUE, files |-> S] : S \in SUBSET DirFiles}

\* the entries of a directory that pass the extension filter
ImageFilesOf(image_dir) ==
    {f \in image_dir.files : suffix_lower(f) \in image_extensions}

\* image_dir.iterdir() yields the entries in an order the file system picks
iterdir(files) ==
    {l \in [1..Cardinality(files) -> files] :
        \A i, j \in 1..Cardinality(files) : i # j => l[i] # l[j]}

\* verify_document from `if uid_number:` to the return, on the record rec
\* of a successful extraction; seen is `uid_number in self.processed_uids`
VerifyExtracted(rec, uid_number, seen, az, uids, alerts) ==
    [result |-> ScoreStage(IF uid_number # <<>>
                           THEN RegistryFlag(ChecksumStage(rec, uid_number), seen)
                           ELSE MissingUid(rec), az),
     uids |-> IF uid_number # <<>> THEN RegistryAdd(uid_number, seen, uids) ELSE uids,
     alerts |-> AlertStage(ScoreStage(IF uid_number # <<>>
                                      THEN RegistryFlag(ChecksumStage(rec, uid_number), seen)
                                      ELSE MissingUid(rec), az),
                           uid_number, alerts)]

\* verify_document once ocr_result is there
VerifyWith(ocr_result, rec, az, uids, alerts) ==
    IF ~ocr_result.success
    THEN [result |-> FailedRecord(rec), uids |-> uids, alerts |-> alerts]
    ELSE VerifyExtracted(rec, ocr_result.extracted_data.uid_number,
             RegistryLookup(ocr_result.extracted_data.uid_number, uids),
             az, uids, alerts)

\* verify_document(image_path, use_azure) from the registry uids and the
\* alert list alerts: the record it returns and what it leaves in both
verify_document_from(image_path, az, uids, alerts) ==
    VerifyWith(extract_data_from_image(ocr_extractor, Scan(image_path), AllEnabled),
               [NewRecord(image_path) EXCEPT !.ocr_extraction =
                   extract_data_from_image(ocr_extractor, Scan(image_path), AllEnabled)],
               az, uids, alerts)

\* results.append(result), with the registry and alert list the call left
BatchStep(acc, v) ==
    [results |-> Append(acc.results, v.result), uids |-> v.uids, alerts |-> v.alerts]

\* the for loop of batch_verify; acc carries results and the pipeline's
\* registry and alert list
RECURSIVE batch_loop(_, _, _, _)
batch_loop(listing, answers, i, acc) ==
    IF i > Len(listing) THEN acc
    ELSE IF suffix_lower(listing[i]) \notin image_extensions
    THEN batch_loop(listing, answers, i + 1, acc)
    ELSE batch_loop(listing, answers, i + 1,
                    BatchStep(acc, verify_document_from(listing[i], answers[listing[i]],
                                                        acc.uids, acc.alerts)))

\* what a call leaves behind: out is the loop's outcome
BatchReturn(image_dir, out) ==
    /\ processed_uids' = out.uids
    /\ fraud_alerts' = out.alerts
    /\ bv_count' = bv_count + 1
    /\ bv_call' = [image_dir |-> image_dir,
                   uids_before |-> processed_uids,
                   alerts_before |-> fraud_alerts,
                   results |-> out.results]

\* results = [] against the pipeline's registry and alert list
BatchStart == [results |-> <<>>, uids |-> processed_uids, alerts |-> fraud_alerts]

\* batch_verify(image_directory, use_azure); answers[f] is what the Azure
\* service answers on file f
batch_verify ==
    /\ bv_count < MaxBatches
    /\ \E image_dir \in Directories, use_azure \in BOOLEAN :
         \E listing \in iterdir(image_dir.files) :
           \E answers \in [ImageFilesOf(image_dir) -> AzureAnswers(use_azure)] :
             BatchReturn(image_dir,
                         IF ~image_dir.exists THEN BatchStart
                         ELSE batch_loop(listing, answers, 1, BatchStart))
    /\ UNCHANGED <<text_vars, detect_vars, ocr_extractor, azure_di, results, batch_start, log, report,
                   thread_vars, score_vars, verhoeff_vars, ocr_vars>>

CountOf(verification_results, recommendation) ==
    Len(SelectSeq(verification_results,
                  LAMBDA r : r.recommendation = recommendation))

\* mutation: a record counts as rejected only when it is fraud-suspect
report_summary_SuspectsOnly(verification_results, alerts) ==
    [total_documents |-> Len(verification_results),
     accepted |-> CountOf(verification_results, "ACCEPT"),
     rejected |-> Len(SelectSeq(verification_results, LAMBDA r : r.is_fraudulent)),
     review_required |-> CountOf(verification_results, "REVIEW"),
     fraud_alerts |-> Len(alerts)]

\* report['summary'] of generate_report
report_summary(verification_results, alerts) ==
    [total_documents |-> Len(verification_results),
     accepted |-> CountOf(verification_results, "ACCEPT"),
     rejected |-> CountOf(verification_results, "REJECT"),
     review_required |-> CountOf(verification_results, "REVIEW"),
     fraud_alerts |-> Len(alerts)]

\* generate_report(verification_results, output_path): the caller hands in
\* the list batch_verify returned, or an empty list
generate_report ==
    /\ \E verification_results \in {<<>>, bv_call.results} :
         report' = [written |-> TRUE,
                    summary |-> report_summary(verification_results, fraud_alerts),
                    detailed_results |-> verification_results,
                    fraud_alerts |-> fraud_alerts]
    /\ UNCHANGED <<text_vars, detect_vars, pipeline_vars, bv_count, bv_call, thread_vars, score_vars,
                   verhoeff_vars, ocr_vars>>

\* the pipeline of run_pipeline.py, with the Azure client configured (a
\* call with use_azure false then runs as without it)
InitBatch ==
    /\ ocr_extractor = "OcrExtractor"
    /\ azure_di = TRUE
    /\ processed_uids = {}
    /\ fraud_alerts = <<>>
    /\ results = <<>>
    /\ batch_start = 0
    /\ log = <<>>
    /\ t_pc = IdleThreads /\ t_rec = NoLocals /\ t_seen = NotSeen
    /\ sc_flags = <<>> /\ sc_conf = 0 /\ sc_score = 0 /\ sc_done = FALSE
    /\ BatchIdle /\ VerhoeffIdle /\ OcrIdle /\ TextIdle /\ DetectIdle

NextBatch == batch_verify \/ generate_report \/ reset

SpecBatch == InitBatch /\ [][NextBatch]_vars

(***************************************************************************)
(* The two validators and the generators of synthetic identifiers on       *)
(* their own: the argument is drawn from 12-digit strings, the same        *)
(* strings padded or grouped, 11-digit bases and malformed values.         *)
(***************************************************************************)
\* the 12-digit strings: a stem with its last TailLen digits replaced
Stems == {X1, <<1, 2, 3, 4, 1, 2, 3, 4, 1, 2, 3, 4>>}
Tails == [1..TailLen -> 0..9]
Digits12 == {SubSeq(stem, 1, 12 - TailLen) \o tail : stem \in Stems, tail \in Tails}

\* what generate_uid_without_checksum can draw
Bases11 == {SubSeq(stem, 1, 11 - TailLen) \o tail : stem \in Stems, tail \in Tails}

\* "  999999999998  " and "1234 1234 1234" / "1234-1234-1234" / "1234.1234.1234"
Padded(s) == <<32, 32>> \o s \o <<32, 32>>
Grouped(s, sep) ==
    SubSeq(s, 1, 4) \o <<sep>> \o SubSeq(s, 5, 8) \o <<sep>> \o SubSeq(s, 9, 12)

\* "", "   ", "12345678901a", "12345678901²", "1234.1234.1234", 13 digits
MalformedStrings ==
    {<<>>, <<32, 32, 32>>,
     <<1, 2, 3, 4, 5, 6, 7, 8, 9, 0, 1, 97>>,
     <<1, 2, 3, 4, 5, 6, 7, 8, 9, 0, 1, 178>>,
     Grouped(<<1, 2, 3, 4, 1, 2, 3, 4, 1, 2, 3, 4>>, 46),
     <<1, 2, 3, 4, 5, 6, 7, 8, 9, 0, 1, 2, 3>>}

VerhoeffInputs ==
    {[none |-> TRUE, s |-> <<>>]}
    \cup {[none |-> FALSE, s |-> x] :
            x \in Digits12 \cup {Padded(s) : s \in Digits12}
                  \cup {Grouped(s, 32) : s \in Digits12}
                  \cup {Grouped(s, 45) : s \in Digits12}
                  \cup Bases11 \cup MalformedStrings}

InitVerhoeff ==
    /\ ocr_extractor = "OcrExtractor"
    /\ azure_di = FALSE
    /\ processed_uids = {}
    /\ fraud_alerts = <<>>
    /\ results = <<>>
    /\ batch_start = 0
    /\ log = <<>>
    /\ t_pc = IdleThreads /\ t_rec = NoLocals /\ t_seen = NotSeen
    /\ sc_flags = <<>> /\ sc_conf = 0 /\ sc_score = 0 /\ sc_done = FALSE
    /\ BatchIdle /\ OcrIdle /\ TextIdle /\ DetectIdle
    /\ vh_input \in VerhoeffInputs
    /\ vh_pipeline = NoValidation
    /\ vh_backend = "pending"
    /\ vh_generated = NotGenerated

\* neither validator has been called yet
NotValidated == ~vh_pipeline.ran /\ vh_backend = "pending"

\* the value the validators are called on: the generated identifier when a
\* generator has run, the drawn argument otherwise
Argument ==
    IF vh_generated.kind = "none" THEN vh_input
    ELSE [none |-> FALSE, s |-> vh_generated.uid]

\* SyntheticDataGenerator.generate_valid_uid; str(check_digit) of a digit is
\* the character of that digit
generate_valid_uid ==
    /\ vh_generated.kind = "none" /\ NotValidated
    /\ ~vh_input.none /\ vh_input.s \in Bases11
    /\ LET uid_without_check == vh_input.s
           check_digit == calculate_checksum(uid_without_check)
       IN  vh_generated' = [kind |-> "valid",
                            uid |-> Append(uid_without_check, check_digit)]
    /\ UNCHANGED <<text_vars, detect_vars, pipeline_vars, thread_vars, score_vars, batch_vars, ocr_vars,
                   vh_input, vh_pipeline, vh_backend>>

\* SyntheticDataGenerator.generate_invalid_uid: the loop ends on any digit
\* other than the correct one
generate_invalid_uid ==
    /\ vh_generated.kind = "none" /\ NotValidated
    /\ ~vh_input.none /\ vh_input.s \in Bases11
    /\ LET uid_without_check == vh_input.s
           correct_check == calculate_checksum(uid_without_check)
       IN  \E wrong_check_digit \in 0..9 :
              /\ wrong_check_digit # correct_check
              /\ vh_generated' = [kind |-> "invalid",
                                  uid |-> Append(uid_without_check, wrong_check_digit)]
    /\ UNCHANGED <<text_vars, detect_vars, pipeline_vars, thread_vars, score_vars, batch_vars, ocr_vars,
                   vh_input, vh_pipeline, vh_backend>>

\* VerhoeffValidator().validate_aadhaar_uid(argument) of the pipeline
ValidateUid ==
    /\ ~vh_pipeline.ran
    /\ vh_pipeline' = validate_aadhaar_uid(str(Argument))
    /\ UNCHANGED <<text_vars, detect_vars, pipeline_vars, thread_vars, score_vars, batch_vars, ocr_vars,
                   vh_input, vh_backend, vh_generated>>

\* validate_aadhaar(argument) of the backend
validate_aadhaar ==
    /\ vh_backend = "pending"
    /\ vh_backend' = validate(Argument)
    /\ UNCHANGED <<text_vars, detect_vars, pipeline_vars, thread_vars, score_vars, batch_vars, ocr_vars,
                   vh_input, vh_pipeline, vh_generated>>

NextVerhoeff ==
    generate_valid_uid \/ generate_invalid_uid \/ ValidateUid \/ validate_aadhaar

SpecVerhoeff == InitVerhoeff /\ [][NextVerhoeff]_vars

(***************************************************************************)
(* MultiOcrExtractor.extract_data_from_image on its own: what each engine  *)
(* yields on each of the three preprocessed versions of the image is       *)
(* drawn, together with the use_* switches.                                *)
(***************************************************************************)
\* what an engine call can yield: nothing, a short or a long text at
\* confidence 0.9, a longer noisy text at confidence 0.1
EngineOuts == {NoText, Out(T_uidonly, 90), Out(T_full, 90), Out(T_noise, 10)}

\* one strategy: it raises, or the three engines answer
StrategyRuns ==
    {Thrown} \cup {Run(tesseract, easyocr, paddleocr) :
                      tesseract \in EngineOuts, easyocr \in EngineOuts,
                      paddleocr \in {NoText, Out(T_full, 90)}}

\* MultiOcrExtractor.__init__: the use_* switches the constructor leaves on
\* the object, in the order Tesseract, EasyOCR, PaddleOCR.  easyocr_ok and
\* paddleocr_ok say whether the optional engine is importable and its
\* reader initialises; the constructor has no raise statement.
MultiOcrExtractor_init(use_easyocr, use_paddleocr, use_tesseract, easyocr_ok, paddleocr_ok) ==
    <<use_tesseract, use_easyocr /\ easyocr_ok, use_paddleocr /\ paddleocr_ok>>

\* the constructions of the model: every engine asked for or none, and
\* EasyOCR initialising or not
EngineSwitches ==
    {MultiOcrExtractor_init(use, use, use, easyocr_ok, TRUE) :
        use \in BOOLEAN, easyocr_ok \in BOOLEAN}

InitOcr ==
    /\ ocr_extractor = "MultiOcrExtractor"
    /\ azure_di = FALSE
    /\ processed_uids = {}
    /\ fraud_alerts = <<>>
    /\ results = <<>>
    /\ batch_start = 0
    /\ log = <<>>
    /\ t_pc = IdleThreads /\ t_rec = NoLocals /\ t_seen = NotSeen
    /\ sc_flags = <<>> /\ sc_conf = 0 /\ sc_score = 0 /\ sc_done = FALSE
    /\ BatchIdle /\ VerhoeffIdle /\ TextIdle /\ DetectIdle
    /\ oc_scan \in [loads : BOOLEAN, runs : StrategyRuns \X StrategyRuns \X StrategyRuns,
                    enabled : EngineSwitches]
    /\ oc_result = NewRecord("None").ocr_extraction
    /\ oc_done = FALSE

\* MultiOcrExtractor(...).extract_data_from_image(image_path)
ExtractCall ==
    /\ ~oc_done
    /\ oc_result' = extract_data_from_image(ocr_extractor, oc_scan, oc_scan.enabled)
    /\ oc_done' = TRUE
    /\ UNCHANGED <<text_vars, detect_vars, pipeline_vars, thread_vars, score_vars, batch_vars, verhoeff_vars,
                   oc_scan>>

NextOcr == ExtractCall

SpecOcr == InitOcr /\ [][NextOcr]_vars

(***************************************************************************)
(* The field extractors on their own: the extractor class and the OCR text *)
(* are drawn, the text being one or two of the lines below.                *)
(***************************************************************************)
\* '2345 6789 0123': a grouped identifier
L_grouped == <<2, 3, 4, 5, 32, 6, 7, 8, 9, 32, 0, 1, 2, 3>>
\* '0123 4567 8901': a grouped sequence that starts with 0
L_grouped0 == <<0, 1, 2, 3, 32, 4, 5, 6, 7, 32, 8, 9, 0, 1>>
\* '234567890123': twelve digits in a row
L_run == <<2, 3, 4, 5, 6, 7, 8, 9, 0, 1, 2, 3>>
\* '0234567890123': thirteen digits in a row, the first one 0
L_run13 == <<0, 2, 3, 4, 5, 6, 7, 8, 9, 0, 1, 2, 3>>
\* '2345 67B9 0123': a grouped identifier with 8 read as B
L_groupedB == <<2, 3, 4, 5, 32, 6, 7, 66, 9, 32, 0, 1, 2, 3>>
\* '23456789O123': twelve characters in a row with 0 read as O
L_runO == <<2, 3, 4, 5, 6, 7, 8, 9, 79, 1, 2, 3>>
\* 'Male'
L_Male == <<77, 97, 108, 101>>
\* 'male'
L_male == <<109, 97, 108, 101>>
\* 'MALE'
L_MALE == <<77, 65, 76, 69>>
\* 'F'
L_F == <<70>>
\* 'female'
L_female == <<102, 101, 109, 97, 108, 101>>
\* 'm'
L_m == <<109>>
\* 'Father: Ram Kumar'
L_FatherColon == <<70, 97, 116, 104, 101, 114, 58, 32, 82, 97, 109, 32, 75, 117, 109, 97, 114>>
\* 'Father Ram Kumar'
L_FatherPlain == <<70, 97, 116, 104, 101, 114, 32, 82, 97, 109, 32, 75, 117, 109, 97, 114>>
\* 'S/O: Ram Kumar'
L_SonOf == <<83, 47, 79, 58, 32, 82, 97, 109, 32, 75, 117, 109, 97, 114>>
\* 'Ram Kumar'
L_Name == <<82, 97, 109, 32, 75, 117, 109, 97, 114>>

UidLines == {L_grouped, L_grouped0, L_run, L_run13, L_groupedB, L_runO}
GenderLines == {L_Male, L_male, L_MALE, L_F, L_female, L_m}
FatherLines == {L_FatherColon, L_FatherPlain, L_SonOf, L_Name}
TextLines == UidLines \cup GenderLines \cup FatherLines

\* one line, or two lines with a line feed or a space between them
Texts ==
    TextLines \cup {l1 \o <<sep>> \o l2 : l1 \in TextLines, l2 \in TextLines,
                                          sep \in Whitespace}

Extractors == {"OcrExtractor", "MultiOcrExtractor", "FastOcrExtractor"}

InitText ==
    /\ ocr_extractor = "OcrExtractor"
    /\ azure_di = FALSE
    /\ processed_uids = {}
    /\ fraud_alerts = <<>>
    /\ results = <<>>
    /\ batch_start = 0
    /\ log = <<>>
    /\ t_pc = IdleThreads /\ t_rec = NoLocals /\ t_seen = NotSeen
    /\ sc_flags = <<>> /\ sc_conf = 0 /\ sc_score = 0 /\ sc_done = FALSE
    /\ BatchIdle /\ VerhoeffIdle /\ OcrIdle /\ DetectIdle
    /\ tx_call \in [extractor : Extractors, text : Texts]
    /\ tx_out = NoFields
    /\ tx_done = FALSE

\* the field part of extract_data_from_image on best_text
ExtractFields ==
    /\ ~tx_done
    /\ tx_out' = [uid_number |-> extract_uid(tx_call.extractor, tx_call.text),
                  gender |-> extract_gender(tx_call.extractor, tx_call.text),
                  father_name |-> father_name(tx_call.extractor, tx_call.text),
                  corrected |-> correction_calls(tx_call.extractor, tx_call.text)]
    /\ tx_done' = TRUE
    /\ UNCHANGED <<pipeline_vars, thread_vars, score_vars, batch_vars, verhoeff_vars,
                   ocr_vars, detect_vars, tx_call>>

NextText == ExtractFields

SpecText == InitText /\ [][NextText]_vars

(***************************************************************************)
(* The detection-integration step of _analyze_document on its own: the     *)
(* verdict of the external analyzer and what the detector finds are drawn. *)
(***************************************************************************)
Verdicts == {"True", "False", "None"}

\* what the YOLO model can report: two fraud classes and a layout class
Detections ==
    {[class_name |-> "tampered_photo", confidence |-> 90],
     [class_name |-> "altered_text", confidence |-> 50],
     [class_name |-> "photo", confidence |-> 95]}

InitDetect ==
    /\ ocr_extractor = "OcrExtractor"
    /\ azure_di = FALSE
    /\ processed_uids = {}
    /\ fraud_alerts = <<>>
    /\ results = <<>>
    /\ batch_start = 0
    /\ log = <<>>
    /\ t_pc = IdleThreads /\ t_rec = NoLocals /\ t_seen = NotSeen
    /\ sc_flags = <<>> /\ sc_conf = 0 /\ sc_score = 0 /\ sc_done = FALSE
    /\ BatchIdle /\ VerhoeffIdle /\ OcrIdle /\ TextIdle
    /\ dt_in \in [is_authentic : Verdicts, exists : BOOLEAN,
                  detections : SUBSET Detections, cv_findings : SUBSET CvChecks,
                  raises : BOOLEAN]
    /\ dt_out = NoDetectionOutput
    /\ dt_done = FALSE

\* _analyze_document from `from .fraud_detector import detect_fraud` to the
\* end of its try / except
DetectionIntegration ==
    /\ ~dt_done
    /\ dt_out' = IF dt_in.raises THEN DetectionFailed(dt_in.is_authentic)
                 ELSE IntegrateResult(dt_in.is_authentic, detect(dt_in))
    /\ dt_done' = TRUE
    /\ UNCHANGED <<pipeline_vars, thread_vars, score_vars, batch_vars, verhoeff_vars,
                   ocr_vars, text_vars, dt_in>>

NextDetect == DetectionIntegration

SpecDetect == InitDetect /\ [][NextDetect]_vars

(***************************************************************************)
(* Properties                                                              *)
(***************************************************************************)
UidOf(r) == r.ocr_extraction.extracted_data.uid_number
Scored(r) == r.ocr_extraction.success
ValidUid(r) == Scored(r) /\ UidOf(r) # <<>> /\ r.uid_validation.is_valid
Flagged(r, f) == Has(r.fraud_flags, f)
\* the records returned since the pipeline was created or last reset
InBatch(i) == i \in (batch_start + 1)..Len(results)
FirstInBatch(i) ==
    \A k \in (batch_start + 1)..(i - 1) : UidOf(results[k]) # UidOf(results[i])
Penalty(c) == IF c < 50 THEN (50 - c) * 2 ELSE 0

\* C1: of the documents verified on one registry (since construction or the
\* last reset) that carry the same checksum-valid identifier, the first is not
\* flagged DUPLICATE_UID and every later one is; in particular the first
\* occurrence after a reset is not flagged although an earlier batch saw it.
C1_DuplicateDetection ==
    \A i \in DOMAIN results :
        (InBatch(i) /\ ValidUid(results[i]))
            => (Flagged(results[i], "DUPLICATE_UID") <=> ~FirstInBatch(i))

C1_Witness ==
    \E i, j \in DOMAIN results :
        /\ i < j /\ InBatch(i) /\ ValidUid(results[i])
        /\ UidOf(results[i]) = UidOf(results[j])
        /\ ~Flagged(results[i], "DUPLICATE_UID")
        /\ Flagged(results[j], "DUPLICATE_UID")

\* the other half of C1: the same identifier on both sides of a reset
C1_ResetCase ==
    \E i, j \in DOMAIN results :
        /\ i <= batch_start /\ InBatch(j) /\ ValidUid(results[i])
        /\ UidOf(results[i]) = UidOf(results[j])
        /\ ~Flagged(results[i], "DUPLICATE_UID")
        /\ ~Flagged(results[j], "DUPLICATE_UID")

\* C2: when two executions of verify_document on one pipeline have both
\* returned and their documents carry the same identifier, at least one of
\* the two records is flagged DUPLICATE_UID.
C2_AtomicLookupInsert ==
    (/\ t_pc[1] = "done" /\ t_pc[2] = "done"
     /\ Scored(t_rec[1]) /\ Scored(t_rec[2])
     /\ UidOf(t_rec[1]) # <<>> /\ UidOf(t_rec[1]) = UidOf(t_rec[2]))
        => (Flagged(t_rec[1], "DUPLICATE_UID") \/ Flagged(t_rec[2], "DUPLICATE_UID"))

\* C3: every identifier in the registry is checksum-valid and no record
\* carries both INVALID_CHECKSUM and DUPLICATE_UID.
C3_RegistryValidatedOnly ==
    /\ \A u \in processed_uids : validate_aadhaar_uid(u).is_valid
    /\ \A i \in DOMAIN results :
           ~(Flagged(results[i], "INVALID_CHECKSUM")
             /\ Flagged(results[i], "DUPLICATE_UID"))

C5_ScoreAccumulation ==
    LET S == {sc_flags[i] : i \in DOMAIN sc_flags}
        W(f, w) == IF f \in S THEN w ELSE 0
        sum == W("INVALID_CHECKSUM", 400) + W("DUPLICATE_UID", 300)
               + W("UID_NOT_FOUND", 250) + W("AZURE_DI_VALIDATION_FAILED", 200)
               + Penalty(sc_conf)
    IN  sc_done =>
          /\ sc_score = (IF sum > 1000 THEN 1000 ELSE sum)
          /\ sc_score >= 0 /\ sc_score <= 1000
          /\ \A f \in FlagNames :
                 calculate_fraud_score(Append(sc_flags, f), sc_conf) >= sc_score

C5_Witness ==
    /\ sc_done /\ sc_score = 1000 /\ sc_conf < 50
    /\ Has(sc_flags, "INVALID_CHECKSUM") /\ Has(sc_flags, "AZURE_DI_VALIDATION_FAILED")

\* the REJECT records of the current batch, in call order
RejectedOf(recs) == SelectSeq(recs, LAMBDA r : r.recommendation = "REJECT")
ScoredRejectedOf(recs) ==
    SelectSeq(recs, LAMBDA r : Scored(r) /\ r.recommendation = "REJECT")
CurrentBatch == SubSeq(results, batch_start + 1, Len(results))
AlertOf(r) == [image |-> r.image_path, uid |-> UidOf(r),
               flags |-> r.fraud_flags, score |-> r.overall_score]

\* C6 as stated: every REJECT record returned since construction or the last
\* reset has its alert, so there are as many alerts as REJECT records.
C6_EveryRejectAlerted ==
    LET rej == RejectedOf(CurrentBatch)
    IN  /\ Len(fraud_alerts) = Len(rej)
        /\ \A k \in DOMAIN rej : fraud_alerts[k] = AlertOf(rej[k])

\* C6 amended: every REJECT record that went through scoring (OCR succeeded)
\* has, in call order, exactly one alert carrying its image, identifier,
\* flags and score, and there are no other alerts; a record rejected by the
\* OCR short-circuit has none.
C6_ScoredRejectAlerted ==
    LET rej == ScoredRejectedOf(CurrentBatch)
    IN  /\ Len(fraud_alerts) = Len(rej)
        /\ \A k \in DOMAIN rej : fraud_alerts[k] = AlertOf(rej[k])

C6_Witness ==
    /\ \E i \in DOMAIN results :
           InBatch(i) /\ ~Scored(results[i]) /\ results[i].recommendation = "REJECT"
    /\ \E j \in DOMAIN results :
           InBatch(j) /\ Scored(results[j]) /\ results[j].recommendation = "REJECT"
    /\ Len(fraud_alerts) = 1

\* C7: a record whose OCR stage failed is REJECT with flags exactly
\* [OCR_EXTRACTION_FAILED], no uid_validation, score 0, and the call left the
\* registry as it found it.
C7_OcrFailureShortCircuit ==
    \A i \in DOMAIN results :
        ~Scored(results[i]) =>
            /\ results[i].recommendation = "REJECT"
            /\ results[i].fraud_flags = <<"OCR_EXTRACTION_FAILED">>
            /\ results[i].uid_validation = NoValidation
            /\ results[i].overall_score = 0
            /\ log[i].after = log[i].before

C7_Witness ==
    \E i \in DOMAIN results :
        ~Scored(results[i]) /\ log[i].before # {} /\ processed_uids # {}

\* C8 as stated: a scored record without identifier is flagged UID_NOT_FOUND,
\* fraud-suspect, scores 25 + confidence penalty and is REJECT; with no text
\* at all its fields are absent, its flags exactly [UID_NOT_FOUND], score 35.
C8_MissingUidAsStated ==
    \A i \in DOMAIN results :
        LET r == results[i]
        IN  (Scored(r) /\ UidOf(r) = <<>>) =>
              /\ Flagged(r, "UID_NOT_FOUND") /\ r.is_fraudulent
              /\ r.overall_score = 250 + Penalty(r.ocr_extraction.confidence)
              /\ r.overall_score >= 250
              /\ r.recommendation = "REJECT"
              /\ (r.ocr_extraction.extracted_data.raw_text = 0) =>
                    /\ r.ocr_extraction.extracted_data = NoData
                    /\ r.fraud_flags = <<"UID_NOT_FOUND">>
                    /\ r.overall_score = 350

\* C8 amended: a scored record without identifier is flagged UID_NOT_FOUND,
\* fraud-suspect and REJECT, and scores 25 + confidence penalty, plus 20 when
\* the external analysis added AZURE_DI_VALIDATION_FAILED (at least 25); with
\* no text at all its fields are absent and, when the external analysis added
\* no flag, its flags are exactly [UID_NOT_FOUND] and its score 35.
C8_MissingUidStillScored ==
    \A i \in DOMAIN results :
        LET r == results[i]
            extra == IF Flagged(r, "AZURE_DI_VALIDATION_FAILED") THEN 200 ELSE 0
        IN  (Scored(r) /\ UidOf(r) = <<>>) =>
              /\ Flagged(r, "UID_NOT_FOUND") /\ r.is_fraudulent
              /\ r.overall_score = 250 + extra + Penalty(r.ocr_extraction.confidence)
              /\ r.overall_score >= 250
              /\ r.recommendation = "REJECT"
              /\ (r.ocr_extraction.extracted_data.raw_text = 0) =>
                    /\ r.ocr_extraction.extracted_data = NoData
                    /\ (r.azure_di_validation \in {"None", "valid"}) =>
                          /\ r.fraud_flags = <<"UID_NOT_FOUND">>
                          /\ r.overall_score = 350

C8_Witness ==
    \E i, j \in DOMAIN results :
        /\ Scored(results[i]) /\ results[i].ocr_extraction.extracted_data.raw_text = 0
        /\ results[i].fraud_flags = <<"UID_NOT_FOUND">>
        /\ results[i].overall_score = 350 /\ results[i].recommendation = "REJECT"
        /\ Scored(results[j]) /\ UidOf(results[j]) = <<>>
        /\ results[j].ocr_extraction.extracted_data.raw_text > 0
        /\ results[j].overall_score = 310

\* the image loads and no strategy / engine combination yields a text
TotalOcrFailure(image_path) ==
    LET scan == Scan(image_path)
    IN  /\ scan.loads
        /\ \A s \in DOMAIN scan.runs :
               \/ scan.runs[s].throws
               \/ \A e \in DOMAIN scan.runs[s].engines :
                      scan.runs[s].engines[e].text.len = 0

\* C9 as stated: the record of a document on which every engine / strategy
\* combination came back empty carries OCR_EXTRACTION_FAILED and is REJECT.
C9_TotalFailureFlagged ==
    \A i \in DOMAIN results :
        TotalOcrFailure(results[i].image_path) =>
            /\ Flagged(results[i], "OCR_EXTRACTION_FAILED")
            /\ results[i].recommendation = "REJECT"

\* C9 amended: such a document is reported by the extractor as a success
\* with empty text; its record carries UID_NOT_FOUND (OCR_EXTRACTION_FAILED
\* only marks an image that could not be loaded) and is REJECT, and the
\* caller can go on to the next document.
C9_TotalFailureIsUidNotFound ==
    \A i \in DOMAIN results :
        TotalOcrFailure(results[i].image_path) =>
            /\ Scored(results[i])
            /\ Flagged(results[i], "UID_NOT_FOUND")
            /\ ~Flagged(results[i], "OCR_EXTRACTION_FAILED")
            /\ results[i].recommendation = "REJECT"
            /\ (i = Len(results) /\ i < MaxDocs) => ENABLED verify_document

C9_Witness ==
    /\ Len(results) >= 2
    /\ TotalOcrFailure(results[1].image_path)
    /\ Flagged(results[1], "UID_NOT_FOUND")
    /\ results[1].recommendation = "REJECT"

\* C10: two calls on the same pipeline for the same document with the same
\* OCR result and the same external answer give the same flags, score and
\* recommendation.
C10_ReanalysisIdempotent ==
    \A i, j \in DOMAIN results :
        (/\ i < j
         /\ results[i].image_path = results[j].image_path
         /\ results[i].ocr_extraction = results[j].ocr_extraction
         /\ results[i].azure_di_validation = results[j].azure_di_validation)
            => /\ results[i].fraud_flags = results[j].fraud_flags
               /\ results[i].overall_score = results[j].overall_score
               /\ results[i].recommendation = results[j].recommendation

\* the identifier of record i met earlier among the records of one returned list
SeenEarlierIn(recs, i) ==
    \E j \in 1..(i - 1) : ValidUid(recs[j]) /\ UidOf(recs[j]) = UidOf(recs[i])

\* C11: every batch_verify call begins with an empty identifier registry and
\* an empty alert list: a record of a call is flagged DUPLICATE_UID only for
\* an identifier met earlier in that same call, and the alert list a call
\* starts from holds no alert of an earlier call.
C11_BatchStartsFresh ==
    bv_count > 0 =>
        /\ bv_call.uids_before = {}
        /\ bv_call.alerts_before = <<>>
        /\ \A i \in DOMAIN bv_call.results :
              Flagged(bv_call.results[i], "DUPLICATE_UID")
                  => SeenEarlierIn(bv_call.results, i)

\* a stage of the document's processing failed: the image did not load, no
\* identifier was extracted, or the Azure analysis did not succeed
StageFailed(r) ==
    \/ ~Scored(r)
    \/ UidOf(r) = <<>>
    \/ r.azure_di_validation = "failed"

\* C12: batch_verify returns exactly one record for every image file of the
\* directory, and a document one of whose stages failed gets a REJECT record.
C12_NoDocumentDropped ==
    bv_count > 0 =>
        LET imgs == ImageFilesOf(bv_call.image_dir)
        IN  /\ Len(bv_call.results) = Cardinality(imgs)
            /\ \A f \in imgs :
                  Cardinality({i \in DOMAIN bv_call.results :
                                  bv_call.results[i].image_path = f}) = 1
            /\ \A i \in DOMAIN bv_call.results :
                  StageFailed(bv_call.results[i])
                      => bv_call.results[i].recommendation = "REJECT"

\* C13: in every report generate_report writes, for a list batch_verify
\* returned or for the empty list, accepted + rejected + review_required is
\* total_documents, and total_documents is the length of the list.
C13_ReportCountsPartition ==
    report.written =>
        /\ report.summary.accepted + report.summary.rejected
             + report.summary.review_required = report.summary.total_documents
        /\ report.summary.total_documents = Len(report.detailed_results)

C13_Witness ==
    /\ report.written
    /\ report.summary.total_documents = 2
    /\ report.summary.accepted = 1
    /\ report.summary.rejected = 1
    /\ \E i \in DOMAIN report.detailed_results :
          /\ report.detailed_results[i].recommendation = "REJECT"
          /\ ~report.detailed_results[i].is_fraudulent

\* the argument is a plain string of exactly 12 digits
TwelveDigits(s) == IsDigits(s) /\ Len(s) = 12

\* C14: on every string of 12 digits the pipeline validator and the backend
\* validator (the recurrence from c = 0 over the digits from the right,
\* accepted when it ends with 0) give the same verdict.
C14_SameAcceptedStrings ==
    (/\ vh_pipeline.ran /\ vh_backend # "pending"
     /\ ~Argument.none /\ TwelveDigits(Argument.s))
        => (vh_pipeline.is_valid <=> vh_backend = "True")

\* the strings one wrong digit, or one swap of two adjacent unequal digits,
\* away from s
SingleDigitErrors(s) ==
    {[s EXCEPT ![i] = x] : i \in DOMAIN s, x \in 0..9} \ {s}
AdjacentTranspositions(s) ==
    {[s EXCEPT ![i] = s[i + 1], ![i + 1] = s[i]] : i \in 1..(Len(s) - 1)} \ {s}

\* C15: an identifier validate_aadhaar_uid accepts has no accepted neighbour
\* that differs from it in exactly one digit or by the swap of two adjacent
\* unequal digits.
C15_ErrorDetection ==
    (vh_pipeline.ran /\ vh_pipeline.is_valid) =>
        \A t \in SingleDigitErrors(vh_pipeline.uid)
                   \cup AdjacentTranspositions(vh_pipeline.uid) :
            ~validate_aadhaar_uid(t).is_valid

\* C16: a base of 11 digits followed by a digit is accepted by
\* validate_aadhaar_uid exactly when the digit is calculate_checksum(base):
\* what generate_valid_uid returns validates, what generate_invalid_uid
\* returns does not.
C16_CheckDigitRoundTrip ==
    (vh_generated.kind # "none" /\ vh_pipeline.ran) =>
        /\ vh_pipeline.uid = vh_generated.uid
        /\ vh_pipeline.is_valid <=> vh_generated.kind = "valid"
        /\ vh_pipeline.is_valid <=>
               vh_generated.uid[12] = calculate_checksum(vh_input.s)

C16_Witness ==
    /\ vh_generated.kind = "valid"
    /\ vh_pipeline.ran
    /\ vh_pipeline.is_valid
    /\ vh_pipeline.error = "None"

\* C17: validate_aadhaar_uid("999999999998"), also with whitespace around
\* the digits, returns is_valid True, uid "999999999998" and error None.
C17_TestVectorAccepted ==
    (/\ vh_generated.kind = "none" /\ vh_pipeline.ran
     /\ ~vh_input.none /\ vh_input.s \in {X1, Padded(X1)})
        => /\ vh_pipeline.is_valid
           /\ vh_pipeline.uid = X1
           /\ vh_pipeline.error = "None"

\* C18: for a 12-digit string written as three groups of four digits
\* separated by spaces or by hyphens, each validator gives the verdict it
\* gives for the string without separators.
C18_SeparatorsIgnored ==
    LET plain == clean_number(vh_input.s)
    IN  (/\ vh_generated.kind = "none" /\ ~vh_input.none
         /\ plain \in Digits12
         /\ vh_input.s \in {Grouped(plain, 32), Grouped(plain, 45)})
            => /\ vh_pipeline.ran =>
                    vh_pipeline.is_valid = validate_aadhaar_uid(plain).is_valid
               /\ vh_backend # "pending" =>
                    vh_backend = validate([none |-> FALSE, s |-> plain])

\* the argument is None, or is not 12 digits once padding and separators
\* are removed
Malformed(number) ==
    number.none \/ ~TwelveDigits(clean_number(strip(number.s)))

\* C19: on a None, empty, wrong-length or non-digit argument neither
\* validator raises and both answer invalid (False, or is_valid False with
\* an error message); an argument is accepted only if it is 12 digits
\* once sanitized.
C19_MalformedRejectedWithoutRaising ==
    vh_generated.kind = "none" =>
        /\ vh_backend # "ValueError"
        /\ (Malformed(vh_input) /\ vh_backend # "pending") => vh_backend = "False"
        /\ (Malformed(vh_input) /\ vh_pipeline.ran) =>
              (~vh_pipeline.is_valid /\ vh_pipeline.error # "None")
        /\ (vh_pipeline.ran /\ vh_pipeline.is_valid) => ~Malformed(vh_input)
        /\ vh_backend = "True" => ~Malformed(vh_input)

\* the (strategy, engine) pairs that gave a non-empty text on the drawn image
Candidates ==
    {c \in (1..3) \X (1..3) :
        /\ ~oc_scan.runs[c[1]].throws
        /\ oc_scan.enabled[c[2]]
        /\ oc_scan.runs[c[1]].engines[c[2]].text.len > 0}
CandidateOut(c) == oc_scan.runs[c[1]].engines[c[2]]

\* (confidence, text length) of a is at most that of b, compared first on
\* confidence and then on length
LexLeq(a, b) ==
    \/ a.conf < b.conf
    \/ a.conf = b.conf /\ a.text.len <= b.text.len

\* C20: the text, the confidence and the engine name extract_data_from_image
\* keeps all come from one (strategy, engine) result, and no non-empty
\* result of an enabled engine has a larger (confidence, text length).
C20_BestCandidateKept ==
    (oc_done /\ oc_result.success /\ Candidates # {}) =>
        \E c \in Candidates :
            /\ oc_result.extracted_data = FieldsOf(CandidateOut(c).text)
            /\ oc_result.ocr_confidence = CandidateOut(c).conf
            /\ oc_result.ocr_engine = Engines[c[2]]
            /\ \A other \in Candidates : LexLeq(CandidateOut(other), CandidateOut(c))

\* two results of confidence 0.9 with lengths 50 and 80, and a longer one
\* of low confidence: the one of length 80 is kept
C20_Witness ==
    /\ oc_done /\ oc_result.success
    /\ \E c1, c2, c3 \in Candidates :
          /\ CandidateOut(c1) = Out(T_uidonly, 90)
          /\ CandidateOut(c2) = Out(T_full, 90)
          /\ CandidateOut(c3) = Out(T_noise, 10)
          /\ c1[1] < c2[1] /\ c2[1] < c3[1]
    /\ oc_result.extracted_data.raw_text = 80
    /\ oc_result.ocr_confidence = 90

\* a strategy that raised, or an engine call that gave no text
SomeFailure ==
    \/ \E i \in 1..3 : oc_scan.runs[i].throws
    \/ \E i \in 1..3, e \in 1..3 :
          oc_scan.enabled[e] /\ oc_scan.runs[i].engines[e].text.len = 0

\* C21: when strategies raise or engine calls give no text, the call on a
\* loaded image still returns normally with success = true; what it returns
\* is a remaining (strategy, engine) result of the highest confidence, and
\* when nothing remains it is the empty text at confidence 0 with engine
\* 'None'.
C21_EngineFailuresIsolated ==
    (oc_done /\ oc_scan.loads /\ SomeFailure) =>
        /\ oc_result.success /\ oc_result.error = "None"
        /\ Candidates = {} =>
              /\ oc_result.extracted_data.raw_text = 0
              /\ oc_result.ocr_confidence = 0
              /\ oc_result.ocr_engine = "None"
        /\ Candidates # {} =>
              /\ oc_result.extracted_data.raw_text > 0
              /\ oc_result.ocr_engine # "None"
              /\ \E c \in Candidates :
                    /\ oc_result.ocr_confidence = CandidateOut(c).conf
                    /\ oc_result.extracted_data.raw_text = CandidateOut(c).text.len
              /\ \A c \in Candidates : CandidateOut(c).conf <= oc_result.ocr_confidence

\* the first strategy yields the full text from PaddleOCR while Tesseract
\* gives nothing, the two later strategies raise: the full text is returned
C21_Witness ==
    /\ oc_done /\ oc_scan.loads
    /\ oc_scan.enabled = AllEnabled
    /\ oc_scan.runs[1] = Run(NoText, NoText, Out(T_full, 90))
    /\ oc_scan.runs[2].throws /\ oc_scan.runs[3].throws
    /\ oc_result.success
    /\ oc_result.extracted_data = FieldsOf(T_full)
    /\ oc_result.ocr_engine = "PaddleOCR"

\* C22: extraction never runs on an extractor that has no engine enabled
\* (its construction would have failed with NoEngineAvailable).
C22_NoEngineIsFatal ==
    oc_done => \E e \in 1..3 : oc_scan.enabled[e]

\* the 4-4-4 grouped digit sequences and the runs of twelve digits found in
\* the text, as the two patterns match them from left to right, whose first
\* digit is 2..9
PlausibleOf(matches) ==
    {matches[k] : k \in {j \in DOMAIN matches : matches[j][1] \notin {0, 1}}}
GroupedIn(text) == PlausibleOf(findall_spaced(text, 1))
RunsIn(text) == PlausibleOf(findall_uid(text, 1))

\* C23: extract_uid returns no value only when the text holds neither a
\* 4-4-4 grouped digit sequence nor twelve digits in a row that start with
\* 2..9; a returned value is one of these, twelve digits long and not
\* starting with 0 or 1.
C23_PlausibleUidFound ==
    tx_done =>
        /\ tx_out.uid_number = <<>> =>
              GroupedIn(tx_call.text) \cup RunsIn(tx_call.text) = {}
        /\ tx_out.uid_number # <<>> =>
              /\ tx_out.uid_number \in GroupedIn(tx_call.text) \cup RunsIn(tx_call.text)
              /\ Len(tx_out.uid_number) = 12
              /\ IsDigits(tx_out.uid_number)
              /\ tx_out.uid_number[1] \notin {0, 1}

\* C24: with each extractor the gender is that of the first gender token
\* of the text read without regard to letter case, and there is no gender
\* when the text has no such token.
C24_GenderCaseInsensitive ==
    tx_done =>
        tx_out.gender = GenderCode(upper(first_gender_match(tx_call.text, 1, TRUE)))

W_FatherColon == <<70, 97, 116, 104, 101, 114, 58>>

\* the line is 'Father:' followed by letters and spaces only
FollowedByName(line) ==
    /\ LiteralAt(line, 1, W_FatherColon, FALSE)
    /\ \A k \in (Len(W_FatherColon) + 1)..Len(line) : InNameClass(line[k])
    /\ Len(strip(SubSeq(line, Len(W_FatherColon) + 1, Len(line)))) > 2

\* C25: for a text of one line 'Father:' followed by a name, father_name
\* is the letters-only span after the marker, not the marker word, and
\* holds no digit.
C25_FatherNameAfterMarker ==
    (tx_done /\ Len(LinesOf(tx_call.text)) = 1
             /\ FollowedByName(LinesOf(tx_call.text)[1])) =>
        /\ tx_out.father_name =
              strip(SubSeq(LinesOf(tx_call.text)[1], Len(W_FatherColon) + 1,
                           Len(LinesOf(tx_call.text)[1])))
        /\ upper(tx_out.father_name) # upper(W_father)
        /\ \A k \in DOMAIN tx_out.father_name : ~IsDigit(tx_out.father_name[k])

\* the lines of the model that hold no identifier in digits
NoDigitUidLines ==
    TextLines \ {L_grouped, L_grouped0, L_run, L_run13}
LookalikeTexts ==
    {l1 \o <<10>> \o l2 : l1 \in {L_groupedB, L_runO}, l2 \in NoDigitUidLines}

\* C30: every string extract_uid hands to correct_uid_ocr_errors is made
\* of digits and comes back unchanged, and a text whose identifier has a
\* digit read as a look-alike letter yields no identifier.
C30_CorrectionIsIdentity ==
    tx_done =>
        /\ \A k \in DOMAIN tx_out.corrected :
              /\ IsDigits(tx_out.corrected[k])
              /\ correct_uid_ocr_errors(tx_out.corrected[k]) = tx_out.corrected[k]
        /\ tx_call.text \in LookalikeTexts => tx_out.uid_number = <<>>

\* MultiOcrExtractor on '0123 4567 8901' followed by '2345 67B9 0123': the
\* correction is called on the first line only and nothing is returned
C30_Witness ==
    /\ tx_done
    /\ tx_call.extractor = "MultiOcrExtractor"
    /\ tx_call.text = L_grouped0 \o <<10>> \o L_groupedB
    /\ tx_out.corrected = << <<0, 1, 2, 3, 4, 5, 6, 7, 8, 9, 0, 1>> >>
    /\ tx_out.uid_number = <<>>

\* C26: the detection step turns an authentic verdict into a non-authentic
\* one only when the detection ran, its risk score is above 0.7 and one of
\* its indicators is not a compression / noise / copy-paste / edge artifact;
\* a non-authentic verdict is never turned into an authentic one.
C26_VerdictTransitions ==
    dt_done =>
        /\ (dt_in.is_authentic = "True" /\ dt_out.is_authentic # "True") =>
              /\ dt_out.is_authentic = "False"
              /\ ~dt_in.raises
              /\ detect(dt_in).risk_score > 700
              /\ \E ind \in detect(dt_in).fraud_indicators : ~HasCvKeyword(ind)
        /\ dt_in.is_authentic = "False" => dt_out.is_authentic = "False"

\* an authentic verdict, a tampered photo detected at 0.9 and text region
\* anomalies (0.4 + 0.36 = 0.76): the verdict becomes non-authentic
C26_Witness ==
    /\ dt_done
    /\ dt_in.is_authentic = "True"
    /\ dt_in.exists /\ ~dt_in.raises
    /\ dt_in.detections = {[class_name |-> "tampered_photo", confidence |-> 90]}
    /\ dt_in.cv_findings = {"text"}
    /\ dt_out.risk_score = 760
    /\ dt_out.is_authentic = "False"

\* the confidences of the non-empty texts Tesseract gave on the strategies
\* of an image that did not raise
TesseractConfidences(image_path) ==
    {Scan(image_path).runs[k].engines[1].conf :
        k \in {j \in 1..3 : /\ ~Scan(image_path).runs[j].throws
                             /\ Scan(image_path).runs[j].engines[1].text.len > 0}}

\* C27: with the default extractor, the confidence of the text a record
\* was built from is the highest one any strategy reached: no later result
\* of lower confidence has replaced it.
C27_DefaultKeepsHighestConfidence ==
    ocr_extractor = "OcrExtractor" =>
        \A i \in DOMAIN results :
            results[i].ocr_extraction.success =>
                \A c \in TesseractConfidences(results[i].image_path) :
                    c <= results[i].ocr_extraction.ocr_confidence

\* C28: two records made from the same registry state with the same fraud
\* flags and the same OCR confidence of the winning candidate have the same
\* overall_score, whatever fields were extracted.
C28_PenaltyFromOcrConfidenceOnly ==
    \A i, j \in DOMAIN results :
        (/\ Scored(results[i]) /\ Scored(results[j])
         /\ log[i].before = log[j].before
         /\ results[i].fraud_flags = results[j].fraud_flags
         /\ results[i].ocr_extraction.ocr_confidence
              = results[j].ocr_extraction.ocr_confidence)
        => results[i].overall_score = results[j].overall_score

====
